---- MODULE Spec2Model ----
(***************************************************************************)
(* A model of the ETL key-resolution pipeline of douban_crawler            *)
(* (src/etl/*.py).  Every CSV / JSONL file is a sequence of records, every *)
(* Python dict an insertion-ordered sequence of <<key, value>> pairs, and  *)
(* every Python str a sequence of code points, so that string comparison,  *)
(* strip() and int() are computed the way Python computes them.            *)
(***************************************************************************)
EXTENDS Integers, Sequences, FiniteSets, TLC

(***************************************************************************)
(* Python strings                                                          *)
(***************************************************************************)

\* Code points used by the inputs of the model.
SP == 32
DIGIT0 == 48
DIGIT9 == 57

\* str(n) for a one-digit and a two-digit decimal number.
D1(a) == <<DIGIT0 + a>>
D2(a, b) == <<DIGIT0 + a, DIGIT0 + b>>

Min2(a, b) == IF a < b THEN a ELSE b

\* Python's  a < b  on str: lexicographic by code point, a proper prefix first.
StrLess(a, b) ==
    \E i \in 1..(Min2(Len(a), Len(b)) + 1) :
        /\ \A j \in 1..(i - 1) : a[j] = b[j]
        /\ \/ (i = Len(a) + 1 /\ i <= Len(b))
           \/ (i <= Len(a) /\ i <= Len(b) /\ a[i] < b[i])

\* Python's None, where a str may stand: no str holds a negative code point.
None == <<-1>>
\* bool(x) of an Optional[str]: None and "" are falsy.
Truthy(x) == x # None /\ x # <<>>

\* s.strip(chars): the characters of chars removed at both ends.
RECURSIVE LStripChars(_, _)
LStripChars(s, chars) ==
    IF s # <<>> /\ Head(s) \in chars THEN LStripChars(Tail(s), chars) ELSE s

RECURSIVE RStripChars(_, _)
RStripChars(s, chars) ==
    IF s # <<>> /\ s[Len(s)] \in chars
    THEN RStripChars(SubSeq(s, 1, Len(s) - 1), chars) ELSE s

StripChars(s, chars) == RStripChars(LStripChars(s, chars), chars)

\* str.strip(): whitespace (tab, line feed, carriage return, blank, U+3000).
Whitespace == {9, 10, 13, SP, 12288}
Strip(s) == StripChars(s, Whitespace)

IsDigits(s) == s # <<>> /\ \A i \in 1..Len(s) : s[i] \in DIGIT0..DIGIT9

RECURSIVE DigitsValue(_)
DigitsValue(s) ==
    IF s = <<>> THEN 0
    ELSE 10 * DigitsValue(SubSeq(s, 1, Len(s) - 1)) + (s[Len(s)] - DIGIT0)

\* int(str(x).strip()): <<>> stands for ValueError, <<n>> for the value n.
ParseInt(s) == IF IsDigits(Strip(s)) THEN <<DigitsValue(Strip(s))>> ELSE <<>>

\* str(n) for a natural number n.
RECURSIVE IntToStr(_)
IntToStr(n) == IF n < 10 THEN D1(n) ELSE IntToStr(n \div 10) \o D1(n % 10)

(***************************************************************************)
(* Python dicts: insertion-ordered sequences of <<key, value>> pairs       *)
(***************************************************************************)

DictKeys(d) == {d[i][1] : i \in 1..Len(d)}
DictHas(d, k) == k \in DictKeys(d)
DictIndex(d, k) == CHOOSE i \in 1..Len(d) : d[i][1] = k
DictGet(d, k) == d[DictIndex(d, k)][2]
\* d[k] = v: a new key is appended, an existing key keeps its position.
DictSet(d, k, v) ==
    IF DictHas(d, k)
    THEN [d EXCEPT ![DictIndex(d, k)] = <<k, v>>]
    ELSE Append(d, <<k, v>>)
DictValues(d) == [i \in 1..Len(d) |-> d[i][2]]

(***************************************************************************)
(* Bounds                                                                  *)
(***************************************************************************)

\* Rows read from movie_ratings.csv by one run of stage 10.
MaxRatingRows == 3

\* Rows read from watching_records.csv by one run of stage 11.
MaxWatchRows == 3

(***************************************************************************)
(* State                                                                   *)
(***************************************************************************)
VARIABLES
    \* stage 10 (10_build_movie_ratings_for_sql.py)
    rating_src,        \* rows of movie_ratings.csv read so far, in file order
    rating_dedup,      \* dedup_map
    rating_cnt,        \* total / skipped_* / duplicate_keys
    rating_out,        \* rows of movie_ratings_for_sql.csv
    rating_pc,         \* "reading" | "done"
    \* stage 11 (11_build_watching_records_for_sql.py)
    watch_src,         \* rows of watching_records.csv read so far
    watch_dedup,       \* dedup_map
    watch_cnt,         \* total / skipped_* / duplicate_keys
    watch_out,         \* rows of watching_records_for_sql.csv
    watch_pc,          \* "reading" | "done"
    \* the record store: data/raw/*/<file>.jsonl in scan order (sorted worker
    \* directory, then line order), and data/seeds/persons_seed.jsonl
    raw_basic,         \* movies_basic.jsonl
    raw_summary,       \* movies_summary.jsonl
    raw_person,        \* person_details_fixed.jsonl / person_details.jsonl
    raw_cast,          \* movie_cast.jsonl
    seed_file,         \* persons_seed.jsonl
    \* stage 03 (03_build_movies_and_persons.py) while it runs
    scan_pc,           \* "idle" | "basic" | "summary" | "seeds" | "persons" | "done"
    movies,            \* collect_movies: movies
    seed_names,        \* load_person_seed_names: seed_names
    persons,           \* collect_persons: persons
    \* data/etl: the files stage 03 writes
    etl_files,         \* names of the files that exist
    movies_csv,
    movie_id_map_csv,
    persons_csv,
    person_id_map_csv,
    \* more of the record store
    raw_details,       \* movies_details.jsonl
    raw_awards,        \* movie_awards.jsonl
    raw_ratings,       \* movie_ratings.jsonl
    raw_watch,         \* movie_watch_records.jsonl
    \* stage 01 (01_build_basic_dicts.py)
    stage01_input,     \* the records its last run read
    basic_dicts,       \* data/etl/basic_dicts: the five dictionary files
    \* stage 05 (05_build_users_and_comments.py)
    users_csv,
    movie_ratings_csv,
    watching_records_csv,
    \* stage 02 (02_build_movie_bridges_and_awards.py)
    staging,           \* movie_genres / movie_regions / movie_languages / award_records .csv
    \* stages 06 and 08: award_record_for_sql.csv and the counters of its run
    award_sql,
    \* stage 07 (07_build_movie_bridges_for_sql.py): one build_bridge_csv call
    bridge,
    \* stage 04 (04_build_credits.py)
    raw_crew,          \* movie_crew.jsonl
    positions_csv,     \* data/etl/positions.csv
    credit_out,        \* cast_credit.csv, crew_credit.csv and what the run printed
    \* 2_build_person_seeds.py
    seed_in,           \* the arguments parse_args accepted
    seed_pc,           \* "start", or "written" once main has returned
    \* 1_crawl_movies.py
    movie_seed_file,   \* movies_seed.jsonl: the movie_douban_id of each line
    num_workers,       \* --num-workers, the same for every process
    worker_runs,       \* the processes started: arguments, seeds loaded, directory
    basic_lines,       \* movies_basic.jsonl, line by line
    raw_root,          \* whether the directory data/raw exists
    stage05_cnt,       \* what the last run of stage 05 read and counted
    \* stage 09 (09_build_app_user_for_sql.py)
    app_users_csv,     \* app_users_for_sql.csv
    \* movie_info/chart_top_list.py: one call of fetch_top_movies_for_type
    top_in,            \* the arguments total_limit and page_size
    top_start,         \* start
    top_results,       \* results
    top_page,          \* the response to the last request
    top_pc,            \* "loop", "page", "returned" or "raised"
    \* 1_crawl_movies.py, 3_crawl_persons.py, 4_crawl_movie_comments.py: one
    \* call of fetch_page_with_retry / fetch_person_with_retry
    retry_crawler,     \* "movies", "persons" or "comments"
    retry_attempt,     \* attempt
    retry_log,         \* the fetches and the sleeps of the call, in order
    retry_result,      \* the value returned
    retry_pc           \* "loop" or "returned"

ratingVars == <<rating_src, rating_dedup, rating_cnt, rating_out, rating_pc>>
watchVars == <<watch_src, watch_dedup, watch_cnt, watch_out, watch_pc>>

rawVars == <<raw_basic, raw_summary, raw_person, raw_cast, seed_file>>
scanVars == <<scan_pc, movies, seed_names, persons>>
dimVars ==
    <<etl_files, movies_csv, movie_id_map_csv, persons_csv, person_id_map_csv>>

storeVars == <<raw_details, raw_awards, raw_ratings, raw_watch>>
idsVars ==
    <<storeVars, stage01_input, basic_dicts, users_csv, movie_ratings_csv,
      watching_records_csv>>

awardVars == <<staging, award_sql>>
creditVars == <<raw_crew, positions_csv, credit_out>>
seedVars == <<seed_in, seed_pc>>
crawlVars == <<movie_seed_file, num_workers, worker_runs>>
topVars == <<top_in, top_start, top_results, top_page, top_pc>>
retryVars ==
    <<retry_crawler, retry_attempt, retry_log, retry_result, retry_pc>>
endVars == <<app_users_csv, topVars, retryVars>>
lateVars == <<crawlVars, basic_lines, raw_root, stage05_cnt, endVars>>
moreVars == <<awardVars, bridge, creditVars, seedVars, lateVars>>

vars == <<ratingVars, watchVars, rawVars, scanVars, dimVars, idsVars, moreVars>>

(***************************************************************************)
(* Stage 10: build_movie_ratings_for_sql                                   *)
(***************************************************************************)

\* The staging rows a run may read.  Timestamps of different lengths make
\* the string order differ from the numeric one ("9" > "10"); rating "11" is
\* out of range; "01" parses to the same user as "1".
RatingIdRaws == {D1(1), D1(2)}
RatingRaws == {D1(3), D1(8)}
RatingStamps == {D2(1, 0), D1(9)}
RatingRowValues ==
    [movie_id : {D1(7)}, user_id : RatingIdRaws, rating : RatingRaws,
     created_at : RatingStamps]
    \cup {[movie_id |-> D1(7), user_id |-> D2(0, 1), rating |-> D1(8),
           created_at |-> <<DIGIT0 + 9, SP>>],
          [movie_id |-> D1(7), user_id |-> <<>>, rating |-> D1(3),
           created_at |-> D1(9)],
          [movie_id |-> D1(7), user_id |-> <<120>>, rating |-> D1(3),
           created_at |-> D1(9)],
          [movie_id |-> D1(7), user_id |-> D1(1), rating |-> D2(1, 1),
           created_at |-> D1(9)],
          [movie_id |-> D1(7), user_id |-> D1(1), rating |-> D1(3),
           created_at |-> <<>>],
          [movie_id |-> D1(7), user_id |-> D1(1), rating |-> D1(3),
           created_at |-> <<SP>>]}

\* Lines 89-99: the id / rating fields are present and parse as integers.
RatingFieldsParse(row) ==
    /\ row.movie_id # <<>>
    /\ row.user_id # <<>>
    /\ ParseInt(row.movie_id) # <<>>
    /\ ParseInt(row.user_id) # <<>>
    /\ ParseInt(row.rating) # <<>>

\* Line 101: rating in [0, 10].
RatingInRange(row) ==
    LET r == ParseInt(row.rating)[1] IN ~(r < 0 \/ r > 10)

\* Line 85: created_at_raw = (row.get("created_at") or "").strip()
RatingCreatedAt(row) == Strip(row.created_at)

\* Lines 112-119: the dedup key and the row kept for it.
RatingKey(row) == <<ParseInt(row.user_id)[1], ParseInt(row.movie_id)[1]>>
RatingNewRow(row) ==
    [user_id |-> IntToStr(ParseInt(row.user_id)[1]),
     movie_id |-> IntToStr(ParseInt(row.movie_id)[1]),
     rating |-> IntToStr(ParseInt(row.rating)[1]),
     created_at |-> RatingCreatedAt(row)]

\* A mutant of RatingReplaces: a later row of equal timestamp also replaces.
RatingReplacesOnTie(new_ts, old_ts) == ~StrLess(new_ts, old_ts)

\* Line 131: if new_ts > old_ts
RatingReplaces(new_ts, old_ts) == StrLess(old_ts, new_ts)

\* One iteration of the loop of lines 79-132 on the next row of the file.
ReadRatingRow(row) ==
    /\ rating_pc = "reading"
    /\ Len(rating_src) < MaxRatingRows
    /\ UNCHANGED <<watchVars, rawVars, scanVars, dimVars, idsVars>>
    /\ UNCHANGED moreVars
    /\ rating_src' = Append(rating_src, row)
    /\ rating_out' = rating_out
    /\ rating_pc' = rating_pc
    /\ IF ~RatingFieldsParse(row) \/ ~RatingInRange(row)
       THEN /\ rating_cnt' = [rating_cnt EXCEPT !.total = @ + 1,
                                                !.skipped_rating_or_id = @ + 1]
            /\ rating_dedup' = rating_dedup
       ELSE IF RatingCreatedAt(row) = <<>>
       THEN /\ rating_cnt' = [rating_cnt EXCEPT !.total = @ + 1,
                                                !.skipped_created_at = @ + 1]
            /\ rating_dedup' = rating_dedup
       ELSE IF ~DictHas(rating_dedup, RatingKey(row))
       THEN /\ rating_cnt' = [rating_cnt EXCEPT !.total = @ + 1]
            /\ rating_dedup' =
                   DictSet(rating_dedup, RatingKey(row), RatingNewRow(row))
       ELSE /\ rating_cnt' = [rating_cnt EXCEPT !.total = @ + 1,
                                                !.duplicate_keys = @ + 1]
            /\ rating_dedup' =
                   IF RatingReplaces(RatingCreatedAt(row),
                          DictGet(rating_dedup, RatingKey(row)).created_at)
                   THEN DictSet(rating_dedup, RatingKey(row), RatingNewRow(row))
                   ELSE rating_dedup

\* Lines 135-142: the end of the file is reached and the CSV is written.
WriteRatings ==
    /\ rating_pc = "reading"
    /\ rating_out' = DictValues(rating_dedup)
    /\ rating_pc' = "done"
    /\ UNCHANGED <<rating_src, rating_dedup, rating_cnt>>
    /\ UNCHANGED <<watchVars, rawVars, scanVars, dimVars, idsVars>>
    /\ UNCHANGED moreVars

RatingInit ==
    /\ rating_src = <<>>
    /\ rating_dedup = <<>>
    /\ rating_cnt = [total |-> 0, skipped_rating_or_id |-> 0,
                     skipped_created_at |-> 0, duplicate_keys |-> 0]
    /\ rating_out = <<>>
    /\ rating_pc = "reading"

RatingNext ==
    \/ \E row \in RatingRowValues : ReadRatingRow(row)
    \/ WriteRatings

(***************************************************************************)
(* Stage 11: build_watching_records_for_sql                                *)
(***************************************************************************)

\* "wishlist", "watching", "watched", "unknown", "TRUE", "FALSE", "true"
S_wishlist == <<119, 105, 115, 104, 108, 105, 115, 116>>
S_watching == <<119, 97, 116, 99, 104, 105, 110, 103>>
S_watched == <<119, 97, 116, 99, 104, 101, 100>>
S_unknown == <<117, 110, 107, 110, 111, 119, 110>>
S_TRUE == <<84, 82, 85, 69>>
S_FALSE == <<70, 65, 76, 83, 69>>
S_true == <<116, 114, 117, 101>>
\* " Watched": the status with a capital and a leading blank
S_Watched_sp == <<SP, 87, 97, 116, 99, 104, 101, 100>>

\* str.lower() / str.upper() on ASCII letters.
Lower(s) == [i \in 1..Len(s) |-> IF s[i] \in 65..90 THEN s[i] + 32 ELSE s[i]]
Upper(s) == [i \in 1..Len(s) |-> IF s[i] \in 97..122 THEN s[i] - 32 ELSE s[i]]

\* Lines 45-49: STATUS_PRIORITY, as a dict.
STATUS_PRIORITY == <<<<S_wishlist, 1>>, <<S_watching, 2>>, <<S_watched, 3>>>>

\* STATUS_PRIORITY.get(s, 0)
StatusPriority(s) ==
    IF DictHas(STATUS_PRIORITY, s) THEN DictGet(STATUS_PRIORITY, s) ELSE 0

\* Lines 52-57.
normalize_status(s) ==
    IF s = <<>> THEN <<>>
    ELSE IF DictHas(STATUS_PRIORITY, Lower(Strip(s))) THEN Lower(Strip(s))
    ELSE <<>>

\* Lines 60-69 ("T", "1", "YES", "Y" are the other spellings of TRUE).
normalize_star(s) ==
    IF Upper(Strip(s)) \in {S_TRUE, <<84>>, <<49>>, <<89, 69, 83>>, <<89>>}
    THEN S_TRUE ELSE S_FALSE

WatchRowValues ==
    [movie_id : {D1(7)}, user_id : {D1(1)},
     status : {S_wishlist, S_watching, S_watched},
     created_at : {D2(1, 0), D1(9)}, star : {S_TRUE, S_FALSE}]
    \cup {[movie_id |-> D1(7), user_id |-> D1(2), status |-> S_Watched_sp,
           created_at |-> D1(9), star |-> S_true],
          [movie_id |-> D1(7), user_id |-> D1(2), status |-> S_wishlist,
           created_at |-> D2(1, 0), star |-> S_FALSE],
          [movie_id |-> D1(7), user_id |-> D1(1), status |-> S_unknown,
           created_at |-> D1(9), star |-> S_TRUE],
          [movie_id |-> D1(7), user_id |-> <<120>>, status |-> S_watched,
           created_at |-> D1(9), star |-> S_TRUE],
          [movie_id |-> D1(7), user_id |-> D1(1), status |-> S_watched,
           created_at |-> <<SP>>, star |-> S_TRUE]}

\* Lines 102-111: the ids are present and parse as integers.
WatchIdsParse(row) ==
    /\ row.movie_id # <<>>
    /\ row.user_id # <<>>
    /\ ParseInt(row.movie_id) # <<>>
    /\ ParseInt(row.user_id) # <<>>

\* Line 98.
WatchCreatedAt(row) == Strip(row.created_at)

\* Lines 124-131.
WatchKey(row) == <<ParseInt(row.user_id)[1], ParseInt(row.movie_id)[1]>>
WatchNewRow(row) ==
    [user_id |-> IntToStr(ParseInt(row.user_id)[1]),
     movie_id |-> IntToStr(ParseInt(row.movie_id)[1]),
     star |-> normalize_star(row.star),
     status |-> normalize_status(row.status),
     created_at |-> WatchCreatedAt(row)]

\* A mutant of WatchReplaces: the later timestamp wins whatever the status.
WatchReplacesByTime(new, old) == StrLess(old.created_at, new.created_at)

\* Lines 140-159: whether the new row replaces the one kept for its key.
WatchReplaces(new, old) ==
    LET old_pri == StatusPriority(old.status)
        new_pri == StatusPriority(new.status)
    IN  IF new_pri > old_pri THEN TRUE
        ELSE IF new_pri = old_pri
        THEN IF StrLess(old.created_at, new.created_at) THEN TRUE
             ELSE IF new.created_at = old.created_at
             THEN new.star = S_TRUE /\ old.star # S_TRUE
             ELSE FALSE
        ELSE FALSE

\* One iteration of the loop of lines 92-162 on the next row of the file.
ReadWatchRow(row) ==
    /\ watch_pc = "reading"
    /\ Len(watch_src) < MaxWatchRows
    /\ UNCHANGED <<ratingVars, rawVars, scanVars, dimVars, idsVars>>
    /\ UNCHANGED moreVars
    /\ watch_src' = Append(watch_src, row)
    /\ watch_out' = watch_out
    /\ watch_pc' = watch_pc
    /\ IF ~WatchIdsParse(row) \/ normalize_status(row.status) = <<>>
       THEN /\ watch_cnt' = [watch_cnt EXCEPT !.total = @ + 1,
                                              !.skipped_basic = @ + 1]
            /\ watch_dedup' = watch_dedup
       ELSE IF WatchCreatedAt(row) = <<>>
       THEN /\ watch_cnt' = [watch_cnt EXCEPT !.total = @ + 1,
                                              !.skipped_created_at = @ + 1]
            /\ watch_dedup' = watch_dedup
       ELSE IF ~DictHas(watch_dedup, WatchKey(row))
       THEN /\ watch_cnt' = [watch_cnt EXCEPT !.total = @ + 1]
            /\ watch_dedup' = DictSet(watch_dedup, WatchKey(row), WatchNewRow(row))
       ELSE /\ watch_cnt' = [watch_cnt EXCEPT !.total = @ + 1,
                                              !.duplicate_keys = @ + 1]
            /\ watch_dedup' =
                   IF WatchReplaces(WatchNewRow(row),
                                    DictGet(watch_dedup, WatchKey(row)))
                   THEN DictSet(watch_dedup, WatchKey(row), WatchNewRow(row))
                   ELSE watch_dedup

\* Lines 165-172: the end of the file is reached and the CSV is written.
WriteWatch ==
    /\ watch_pc = "reading"
    /\ watch_out' = DictValues(watch_dedup)
    /\ watch_pc' = "done"
    /\ UNCHANGED <<watch_src, watch_dedup, watch_cnt>>
    /\ UNCHANGED <<ratingVars, rawVars, scanVars, dimVars, idsVars>>
    /\ UNCHANGED moreVars

WatchInit ==
    /\ watch_src = <<>>
    /\ watch_dedup = <<>>
    /\ watch_cnt = [total |-> 0, skipped_basic |-> 0,
                    skipped_created_at |-> 0, duplicate_keys |-> 0]
    /\ watch_out = <<>>
    /\ watch_pc = "reading"

WatchNext ==
    \/ \E row \in WatchRowValues : ReadWatchRow(row)
    \/ WriteWatch

(***************************************************************************)
(* Stage 03: build_movies_and_persons                                      *)
(***************************************************************************)

\* Letters for the free-text values of the records.
Ch == [A |-> <<65>>, B |-> <<66>>, C |-> <<67>>, S |-> <<83>>, T |-> <<84>>,
       X |-> <<88>>]
\* '""': a value made of two quotation marks
QQ == <<34, 34>>

\* Lines 94-105: normalize_str.  The characters of the second strip are the
\* blank, the quotation mark, U+3000 and the two curly quotation marks.
normalize_str(s) ==
    IF s = None THEN None
    ELSE IF Strip(s) = <<>> THEN None
    ELSE StripChars(Strip(s), {SP, 34, 12288, 8220, 8221})

\* re.sub(r"\s+", " ", s) and " ".join(s.split()): each run of whitespace
\* becomes one blank.
RECURSIVE Squeeze(_)
Squeeze(s) ==
    IF s = <<>> THEN <<>>
    ELSE IF Head(s) \in Whitespace
    THEN <<SP>> \o Squeeze(LStripChars(Tail(s), Whitespace))
    ELSE <<Head(s)>> \o Squeeze(Tail(s))

\* Lines 108-120: sanitize_text_for_csv.
sanitize_text_for_csv(s) ==
    IF normalize_str(s) = None THEN None ELSE Strip(Squeeze(normalize_str(s)))

\* Lines 189-193: runtime_minutes, a JSON number being given by its digits.
RuntimeStr(runtime_raw) ==
    IF runtime_raw = None \/ runtime_raw = <<>> THEN None ELSE runtime_raw

\* Mutants of FillIfEmpty: the latest non-empty value wins; the latest value
\* wins, empty or not.
FillLastNonEmpty(old, new) == IF Truthy(new) THEN new ELSE old
FillLast(old, new) == new

\* Lines 206-213, 243-244, 325-340:  if x and not rec.get("x"): rec["x"] = x
FillIfEmpty(old, new) == IF Truthy(new) /\ ~Truthy(old) THEN new ELSE old

\* Lines 181-213: one record of movies_basic.jsonl.
MergeBasic(ms, obj) ==
    LET mid == normalize_str(obj.movie_douban_id)
        title == normalize_str(obj.title)
        image_url == normalize_str(obj.image_url)
        release_date == normalize_str(obj.release_date)
        runtime_minutes == RuntimeStr(obj.runtime_minutes)
    IN  IF ~Truthy(mid) THEN ms
        ELSE IF ~DictHas(ms, mid)
        THEN DictSet(ms, mid,
                 [movie_douban_id |-> mid, title |-> title,
                  image_url |-> image_url, release_date |-> release_date,
                  runtime_minutes |-> runtime_minutes, summary |-> None])
        ELSE LET rec == DictGet(ms, mid) IN
             DictSet(ms, mid,
                 [rec EXCEPT
                     !.title = FillIfEmpty(@, title),
                     !.image_url = FillIfEmpty(@, image_url),
                     !.release_date = FillIfEmpty(@, release_date),
                     !.runtime_minutes = FillIfEmpty(@, runtime_minutes)])

\* Lines 224-244: one record of movies_summary.jsonl.
MergeSummary(ms, obj) ==
    LET mid == normalize_str(obj.movie_douban_id)
        summary == sanitize_text_for_csv(obj.summary)
    IN  IF ~Truthy(mid) THEN ms
        ELSE IF ~Truthy(summary) THEN ms
        ELSE IF ~DictHas(ms, mid)
        THEN DictSet(ms, mid,
                 [movie_douban_id |-> mid, title |-> None, image_url |-> None,
                  release_date |-> None, runtime_minutes |-> None,
                  summary |-> summary])
        ELSE LET rec == DictGet(ms, mid) IN
             DictSet(ms, mid, [rec EXCEPT !.summary = FillIfEmpty(@, summary)])

\* Lines 141-150: one record of persons_seed.jsonl.
MergeSeed(names, obj) ==
    LET pid == normalize_str(obj.person_douban_id)
        name == normalize_str(obj.name)
    IN  IF ~Truthy(pid) THEN names
        ELSE IF ~Truthy(name) THEN names
        ELSE DictSet(names, pid, name)

\* A mutant of PersonName: the detail name is preferred to the seed name.
PersonNameDetailFirst(seed_name, detail_name) ==
    IF Truthy(detail_name) THEN detail_name ELSE seed_name

\* Line 300:  name = seed_name or detail_name
PersonName(seed_name, detail_name) ==
    IF Truthy(seed_name) THEN seed_name ELSE detail_name

\* Lines 294-297: the name of a detail record.
DetailName(obj) ==
    normalize_str(IF obj.name = None THEN obj.name_cn ELSE obj.name)

\* Lines 286-340: one record of the person details file.
MergePerson(ps, names, obj) ==
    LET pid == normalize_str(obj.person_douban_id)
        seed_name == IF DictHas(names, pid)
                     THEN normalize_str(DictGet(names, pid)) ELSE None
        name == PersonName(seed_name, DetailName(obj))
        avatar_url == normalize_str(obj.avatar_url)
        sex == normalize_str(obj.sex)
        birth_date == normalize_str(obj.birth_date)
        death_date == normalize_str(obj.death_date)
        birth_place_raw == normalize_str(obj.birth_place_raw)
        birth_region == normalize_str(obj.birth_region)
        imdb_id == normalize_str(obj.imdb_id)
    IN  IF ~Truthy(pid) THEN ps
        ELSE IF ~DictHas(ps, pid)
        THEN DictSet(ps, pid,
                 [person_douban_id |-> pid, name |-> name,
                  avatar_url |-> avatar_url, sex |-> sex,
                  birth_date |-> birth_date, death_date |-> death_date,
                  birth_place_raw |-> birth_place_raw,
                  birth_region |-> birth_region, imdb_id |-> imdb_id])
        ELSE LET rec == DictGet(ps, pid) IN
             DictSet(ps, pid,
                 [rec EXCEPT
                     !.name = FillIfEmpty(@, name),
                     !.avatar_url = FillIfEmpty(@, avatar_url),
                     !.sex = FillIfEmpty(@, sex),
                     !.birth_date = FillIfEmpty(@, birth_date),
                     !.death_date = FillIfEmpty(@, death_date),
                     !.birth_place_raw = FillIfEmpty(@, birth_place_raw),
                     !.birth_region = FillIfEmpty(@, birth_region),
                     !.imdb_id = FillIfEmpty(@, imdb_id)])

\* The loops over a whole file.
RECURSIVE FoldBasic(_, _)
FoldBasic(ms, file) ==
    IF file = <<>> THEN ms ELSE FoldBasic(MergeBasic(ms, Head(file)), Tail(file))

RECURSIVE FoldSummary(_, _)
FoldSummary(ms, file) ==
    IF file = <<>> THEN ms
    ELSE FoldSummary(MergeSummary(ms, Head(file)), Tail(file))

RECURSIVE FoldSeed(_, _)
FoldSeed(names, file) ==
    IF file = <<>> THEN names ELSE FoldSeed(MergeSeed(names, Head(file)), Tail(file))

RECURSIVE FoldPerson(_, _, _)
FoldPerson(ps, names, file) ==
    IF file = <<>> THEN ps
    ELSE FoldPerson(MergePerson(ps, names, Head(file)), names, Tail(file))

\* Lines 158-247, 125-153, 252-343.
collect_movies(basic, summary) == FoldSummary(FoldBasic(<<>>, basic), summary)
load_person_seed_names(file) == FoldSeed(<<>>, file)
collect_persons(names, file) == FoldPerson(<<>>, names, file)

\* sorted(keys) of a set of str: ascending in Python's str order.
RECURSIVE SortStrs(_)
SortStrs(S) ==
    IF S = {} THEN <<>>
    ELSE LET least == CHOOSE x \in S : \A y \in S \ {x} : StrLess(x, y)
         IN  <<least>> \o SortStrs(S \ {least})

\* A mutant of EnumerateFrom1: the numbering starts at 0.
EnumerateFrom0(i) == i - 1

\* enumerate(rows, start=1): the number given to the i-th row.
EnumerateFrom1(i) == i

\*  rec.get(f) or ""
OrEmpty(x) == IF Truthy(x) THEN x ELSE <<>>

\* Lines 351-373: movies.csv.
MoviesCsv(ms) ==
    LET mids_sorted == SortStrs(DictKeys(ms)) IN
    [header |-> <<"movie_douban_id", "title", "image_url", "release_date",
                  "runtime_minutes", "summary">>,
     rows |-> [i \in 1..Len(mids_sorted) |->
                  LET rec == DictGet(ms, mids_sorted[i]) IN
                  [movie_douban_id |-> OrEmpty(rec.movie_douban_id),
                   title |-> OrEmpty(rec.title),
                   image_url |-> OrEmpty(rec.image_url),
                   release_date |-> OrEmpty(rec.release_date),
                   runtime_minutes |-> OrEmpty(rec.runtime_minutes),
                   summary |-> OrEmpty(rec.summary)]]]

\* Lines 376-381: movie_id_map.csv.
MovieIdMapCsv(ms) ==
    LET mids_sorted == SortStrs(DictKeys(ms)) IN
    [header |-> <<"movie_id", "movie_douban_id">>,
     rows |-> [i \in 1..Len(mids_sorted) |->
                  [movie_id |-> IntToStr(EnumerateFrom1(i)),
                   movie_douban_id |-> mids_sorted[i]]]]

\* Lines 388-416: persons.csv.
PersonsCsv(ps) ==
    LET pids_sorted == SortStrs(DictKeys(ps)) IN
    [header |-> <<"person_douban_id", "name", "avatar_url", "sex", "birth_date",
                  "death_date", "birth_place_raw", "birth_region", "imdb_id">>,
     rows |-> [i \in 1..Len(pids_sorted) |->
                  LET rec == DictGet(ps, pids_sorted[i]) IN
                  [person_douban_id |-> OrEmpty(rec.person_douban_id),
                   name |-> OrEmpty(rec.name),
                   avatar_url |-> OrEmpty(rec.avatar_url),
                   sex |-> OrEmpty(rec.sex),
                   birth_date |-> OrEmpty(rec.birth_date),
                   death_date |-> OrEmpty(rec.death_date),
                   birth_place_raw |-> OrEmpty(rec.birth_place_raw),
                   birth_region |-> OrEmpty(rec.birth_region),
                   imdb_id |-> OrEmpty(rec.imdb_id)]]]

\* Lines 419-424: person_id_map.csv.
PersonIdMapCsv(ps) ==
    LET pids_sorted == SortStrs(DictKeys(ps)) IN
    [header |-> <<"person_id", "person_douban_id">>,
     rows |-> [i \in 1..Len(pids_sorted) |->
                  [person_id |-> IntToStr(EnumerateFrom1(i)),
                   person_douban_id |-> pids_sorted[i]]]]

NoCsv == [header |-> <<>>, rows |-> <<>>]

\* The records the scan may meet.  A person record carries the name of the
\* file of its worker directory that it stands in: person_details_fixed.jsonl,
\* or person_details.jsonl in a directory that has no fixed file.
NoBasic ==
    [movie_douban_id |-> None, title |-> None, image_url |-> None,
     release_date |-> None, runtime_minutes |-> None, genres |-> <<>>]
ScanBasicValues ==
    {[NoBasic EXCEPT !.movie_douban_id = D1(9), !.title = Ch.A,
                     !.runtime_minutes = D2(9, 0)],
     [NoBasic EXCEPT !.movie_douban_id = D1(9), !.title = Ch.B,
                     !.image_url = Ch.A, !.runtime_minutes = <<>>],
     [NoBasic EXCEPT !.movie_douban_id = D1(9), !.title = QQ,
                     !.release_date = Ch.C],
     [NoBasic EXCEPT !.movie_douban_id = D2(1, 0), !.title = Ch.A],
     [NoBasic EXCEPT !.title = Ch.A]}
ScanSummaryValues ==
    {[movie_douban_id |-> D1(9), summary |-> None],
     [movie_douban_id |-> D1(9), summary |-> Ch.A],
     [movie_douban_id |-> D1(9), summary |-> <<SP, 66, SP>>],
     [movie_douban_id |-> D1(3), summary |-> Ch.A]}
NoPerson ==
    [person_douban_id |-> None, name |-> None, name_cn |-> None,
     avatar_url |-> None, sex |-> None, birth_date |-> None,
     death_date |-> None, birth_place_raw |-> None, birth_region |-> None,
     imdb_id |-> None, file |-> "person_details_fixed.jsonl"]
ScanPersonValues ==
    {[NoPerson EXCEPT !.person_douban_id = D1(5), !.name = Ch.A],
     [NoPerson EXCEPT !.person_douban_id = D1(5), !.name = Ch.B,
                      !.avatar_url = Ch.A, !.birth_region = Ch.C],
     [NoPerson EXCEPT !.person_douban_id = D1(5), !.name_cn = Ch.C,
                      !.avatar_url = Ch.B, !.sex = Ch.A],
     [NoPerson EXCEPT !.person_douban_id = D1(5), !.name = <<>>,
                      !.name_cn = Ch.C],
     [NoPerson EXCEPT !.person_douban_id = D1(6), !.name = Ch.A,
                      !.imdb_id = Ch.T]}
SeedFileValues ==
    {<<>>,
     <<[person_douban_id |-> D1(5), name |-> Ch.S]>>,
     <<[person_douban_id |-> D1(5), name |-> QQ],
       [person_douban_id |-> D1(6), name |-> Ch.S]>>}
\* movie_cast.jsonl: the names the credit records give to the persons.
CastFile ==
    <<[movie_douban_id |-> D1(9), person_douban_id |-> D1(5), name |-> Ch.X,
       role |-> <<>>, order |-> <<>>]>>

\* Records read by one run of stage 03, over its three scans.
MaxScan == 3
ScanCount == Len(raw_basic) + Len(raw_summary) + Len(raw_person)

\* main(), line 433: collect_movies starts.
ScanStart ==
    /\ scan_pc = "idle"
    /\ scan_pc' = "basic"
    /\ UNCHANGED <<movies, seed_names, persons>>
    /\ UNCHANGED <<ratingVars, watchVars, rawVars, dimVars, idsVars>>
    /\ UNCHANGED moreVars

\* Lines 180-213: the next record of movies_basic.jsonl is read.
ScanBasic(obj) ==
    /\ scan_pc = "basic"
    /\ ScanCount < MaxScan
    /\ raw_basic' = Append(raw_basic, obj)
    /\ movies' = MergeBasic(movies, obj)
    /\ UNCHANGED <<scan_pc, seed_names, persons>>
    /\ UNCHANGED <<raw_summary, raw_person, raw_cast, seed_file>>
    /\ UNCHANGED <<ratingVars, watchVars, dimVars, idsVars>>
    /\ UNCHANGED moreVars

\* Line 216: the first scan ends.
ScanBasicEnd ==
    /\ scan_pc = "basic"
    /\ scan_pc' = "summary"
    /\ UNCHANGED <<movies, seed_names, persons>>
    /\ UNCHANGED <<ratingVars, watchVars, rawVars, dimVars, idsVars>>
    /\ UNCHANGED moreVars

\* Lines 223-244: the next record of movies_summary.jsonl is read.
ScanSummary(obj) ==
    /\ scan_pc = "summary"
    /\ ScanCount < MaxScan
    /\ raw_summary' = Append(raw_summary, obj)
    /\ movies' = MergeSummary(movies, obj)
    /\ UNCHANGED <<scan_pc, seed_names, persons>>
    /\ UNCHANGED <<raw_basic, raw_person, raw_cast, seed_file>>
    /\ UNCHANGED <<ratingVars, watchVars, dimVars, idsVars>>
    /\ UNCHANGED moreVars

\* main(), line 434: load_person_seed_names reads the seed file it finds.
ScanSeeds(file) ==
    /\ scan_pc = "summary"
    /\ seed_file' = file
    /\ seed_names' = load_person_seed_names(file)
    /\ scan_pc' = "persons"
    /\ UNCHANGED <<movies, persons>>
    /\ UNCHANGED <<raw_basic, raw_summary, raw_person, raw_cast>>
    /\ UNCHANGED <<ratingVars, watchVars, dimVars, idsVars>>
    /\ UNCHANGED moreVars

\* Lines 285-340: the next record of the person details file is read.
ScanPerson(obj) ==
    /\ scan_pc = "persons"
    /\ ScanCount < MaxScan
    /\ raw_person' = Append(raw_person, obj)
    /\ persons' = MergePerson(persons, seed_names, obj)
    /\ UNCHANGED <<scan_pc, movies, seed_names>>
    /\ UNCHANGED <<raw_basic, raw_summary, raw_cast, seed_file>>
    /\ UNCHANGED <<ratingVars, watchVars, dimVars, idsVars>>
    /\ UNCHANGED moreVars

\* main(), lines 437-438: the four files are written.
ScanWrite ==
    /\ scan_pc = "persons"
    /\ scan_pc' = "done"
    /\ etl_files' = etl_files \cup
           {"movies.csv", "movie_id_map.csv", "persons.csv", "person_id_map.csv"}
    /\ movies_csv' = MoviesCsv(movies)
    /\ movie_id_map_csv' = MovieIdMapCsv(movies)
    /\ persons_csv' = PersonsCsv(persons)
    /\ person_id_map_csv' = PersonIdMapCsv(persons)
    /\ UNCHANGED <<movies, seed_names, persons>>
    /\ UNCHANGED <<ratingVars, watchVars, rawVars, idsVars>>
    /\ UNCHANGED moreVars

RawInit ==
    /\ raw_basic = <<>>
    /\ raw_summary = <<>>
    /\ raw_person = <<>>
    /\ raw_cast = <<>>
    /\ seed_file = <<>>

ScanInit ==
    /\ scan_pc = "idle"
    /\ movies = <<>>
    /\ seed_names = <<>>
    /\ persons = <<>>

DimInit ==
    /\ etl_files = {}
    /\ movies_csv = NoCsv
    /\ movie_id_map_csv = NoCsv
    /\ persons_csv = NoCsv
    /\ person_id_map_csv = NoCsv

ScanNext ==
    \/ ScanStart
    \/ \E obj \in ScanBasicValues : ScanBasic(obj)
    \/ ScanBasicEnd
    \/ \E obj \in ScanSummaryValues : ScanSummary(obj)
    \/ \E file \in SeedFileValues : ScanSeeds(file)
    \/ \E obj \in ScanPersonValues : ScanPerson(obj)
    \/ ScanWrite

(***************************************************************************)
(* Stage 01: build_basic_dicts                                             *)
(***************************************************************************)

SeqRange(s) == {s[i] : i \in 1..Len(s)}

\* x in s, for two str
Contains(s, sub) ==
    \E i \in 1..(Len(s) - Len(sub) + 1) : SubSeq(s, i, i + Len(sub) - 1) = sub

\* Lines 171-175: festival_year as an int, <<y>>, or None.
FestYear(raw) ==
    IF raw = None THEN None
    ELSE IF ParseInt(raw) = <<>> THEN None ELSE ParseInt(raw)

\* Lines 190-204: award_type is 'person' or 'movie' when one of the words for
\* them is in the lowered value (person, 个人, 演员, 导演, 编剧; movie, 影片,
\* 电影), else the lowered value.
AwardType(raw) ==
    LET award_type_raw == normalize_str(raw)
        lowered == Lower(award_type_raw)
    IN  IF ~Truthy(award_type_raw) THEN None
        ELSE IF \E w \in {<<112, 101, 114, 115, 111, 110>>, <<20010, 20154>>,
                          <<28436, 21592>>, <<23548, 28436>>, <<32534, 21095>>} :
                    Contains(lowered, w)
        THEN <<112, 101, 114, 115, 111, 110>>
        ELSE IF \E w \in {<<109, 111, 118, 105, 101>>, <<24433, 29255>>,
                          <<30005, 24433>>} : Contains(lowered, w)
        THEN <<109, 111, 118, 105, 101>>
        ELSE lowered

\* Lines 165-188: the festivals of movie_awards.jsonl, keyed by (name, year).
RECURSIVE FoldFestivals(_, _)
FoldFestivals(fests, file) ==
    IF file = <<>> THEN fests
    ELSE LET obj == Head(file)
             fest_name == normalize_str(obj.festival_name)
             fest_year == FestYear(obj.festival_year)
             fest_url == normalize_str(obj.festival_url)
             key == <<fest_name, fest_year>>
         IN  FoldFestivals(
                 IF ~Truthy(fest_name) THEN fests
                 ELSE IF ~DictHas(fests, key)
                 THEN DictSet(fests, key,
                          [name |-> fest_name, year |-> fest_year,
                           url |-> fest_url])
                 ELSE DictSet(fests, key,
                          [DictGet(fests, key) EXCEPT
                              !.url = FillIfEmpty(@, fest_url)]),
                 Tail(file))

\* Lines 102-221: collect_basic_sets.
collect_basic_sets(basic, details, person, award_file) ==
    LET Names(S) == {n \in {normalize_str(x) : x \in S} : Truthy(n)}
        Listed(file, f) == UNION {SeqRange(file[i][f]) : i \in 1..Len(file)}
        AwardOf(obj) ==
            <<OrEmpty(normalize_str(obj.festival_name)),
              FestYear(obj.festival_year),
              normalize_str(obj.award_name),
              AwardType(obj.award_type)>>
    IN  [genres |-> Names(Listed(basic, "genres")),
         regions |-> Names(Listed(details, "regions"))
                        \cup Names({person[i].birth_region : i \in
                                 {j \in 1..Len(person) :
                                     person[j].file = "person_details_fixed.jsonl"}}),
         languages |-> Names(Listed(details, "languages")),
         festivals |-> FoldFestivals(<<>>, award_file),
         awards |-> {AwardOf(award_file[i]) : i \in
                        {j \in 1..Len(award_file) :
                            Truthy(normalize_str(award_file[j].award_name))}}]

\* Lines 231-261: write_genre_dict, write_language_dict, write_region_dict.
NameDictCsv(names, id_col) ==
    LET rows == SortStrs(names) IN
    [header |-> <<id_col, "name">>,
     rows |-> [i \in 1..Len(rows) |->
                  [c \in {id_col, "name"} |->
                      IF c = id_col THEN IntToStr(EnumerateFrom1(i)) ELSE rows[i]]]]

\* The rank of an unknown festival year in the sort keys.
UnknownYearRank == 999999

\* The order of the sort keys (name, year, name).
KeyLess(a, b) ==
    \/ StrLess(a[1], b[1])
    \/ a[1] = b[1] /\ a[2] < b[2]
    \/ a[1] = b[1] /\ a[2] = b[2] /\ StrLess(a[3], b[3])

\* sorted(seq, key=...), key[i] being the key of seq[i]: the sort is stable.
StableSort(seq, key) ==
    LET n == Len(seq)
        Rank(i) == 1 + Cardinality({j \in 1..n :
                           \/ KeyLess(key[j], key[i])
                           \/ key[j] = key[i] /\ j < i})
    IN  [r \in 1..n |-> seq[CHOOSE i \in 1..n : Rank(i) = r]]

\* Lines 271-287: festival_id_map, a dict from (name, year) to festival_id.
festival_id_map(fests) ==
    LET keys == [i \in 1..Len(fests) |-> fests[i][1]]
        keys_sorted ==
            StableSort(keys,
                [i \in 1..Len(keys) |->
                    <<keys[i][1],
                      IF keys[i][2] = None THEN UnknownYearRank ELSE keys[i][2][1],
                      <<>>>>])
    IN  [i \in 1..Len(keys_sorted) |-> <<keys_sorted[i], EnumerateFrom1(i)>>]

\* Lines 264-290: dict_festival.csv.
FestivalDictCsv(fests) ==
    LET ids == festival_id_map(fests) IN
    [header |-> <<"festival_id", "name", "year", "url">>,
     rows |-> [i \in 1..Len(ids) |->
                  LET fest == DictGet(fests, ids[i][1]) IN
                  [festival_id |-> IntToStr(ids[i][2]),
                   name |-> OrEmpty(fest.name),
                   year |-> IF fest.year = None THEN <<>>
                            ELSE IntToStr(fest.year[1]),
                   url |-> OrEmpty(fest.url)]]]

\* Lines 293-326: dict_award.csv, the set awards being iterated in the order
\* given.
AwardDictCsv(order, fests) ==
    LET ids == festival_id_map(fests)
        Known(a) == DictHas(ids, <<a[1], a[2]>>)
        cleaned == SelectSeq(order, Known)
        cleaned_sorted ==
            StableSort(cleaned,
                [i \in 1..Len(cleaned) |->
                    <<cleaned[i][1],
                      IF cleaned[i][2] = None THEN UnknownYearRank
                      ELSE cleaned[i][2][1],
                      cleaned[i][3]>>])
    IN  [header |-> <<"award_id", "festival_id", "name", "award_type">>,
         rows |-> [i \in 1..Len(cleaned_sorted) |->
                      LET a == cleaned_sorted[i] IN
                      [award_id |-> IntToStr(EnumerateFrom1(i)),
                       festival_id |-> IntToStr(DictGet(ids, <<a[1], a[2]>>)),
                       name |-> a[3],
                       award_type |-> OrEmpty(a[4])]]]

\* The orders a Python set of tuples of str may be iterated in: any, the hash
\* of a str changing from one run of the interpreter to the next.
Orderings(S) ==
    {o \in [1..Cardinality(S) -> S] :
        \A i, j \in 1..Cardinality(S) : o[i] = o[j] => i = j}

\* main(), lines 331-346: one run of stage 01.
RunStage01 ==
    LET data == collect_basic_sets(raw_basic, raw_details, raw_person, raw_awards)
    IN  /\ stage01_input' = <<raw_basic, raw_details, raw_person, raw_awards>>
        /\ \E order \in Orderings(data.awards) :
               basic_dicts' =
                   [dict_genre |-> NameDictCsv(data.genres, "genre_id"),
                    dict_language |-> NameDictCsv(data.languages, "lang_id"),
                    dict_region |-> NameDictCsv(data.regions, "region_id"),
                    dict_festival |-> FestivalDictCsv(data.festivals),
                    dict_award |-> AwardDictCsv(order, data.festivals)]
        /\ etl_files' = etl_files \cup
               {"dict_genre.csv", "dict_language.csv", "dict_region.csv",
                "dict_festival.csv", "dict_award.csv"}
        /\ UNCHANGED <<movies_csv, movie_id_map_csv, persons_csv,
                       person_id_map_csv>>
        /\ UNCHANGED <<storeVars, users_csv, movie_ratings_csv,
                       watching_records_csv>>
        /\ UNCHANGED <<ratingVars, watchVars, rawVars, scanVars>>
        /\ UNCHANGED moreVars

(***************************************************************************)
(* Stage 05: build_users_and_comments                                      *)
(***************************************************************************)

\* Lines 85-105: _detect_columns("movie", fieldnames); <<>> stands for None.
detect_columns(fieldnames) ==
    LET First(candidates) ==
            LET hits == {i \in 1..Len(candidates) :
                            candidates[i] \in SeqRange(fieldnames)}
            IN  IF hits = {} THEN <<>>
                ELSE <<candidates[CHOOSE i \in hits : \A j \in hits : i <= j]>>
    IN  [douban_col |-> First(<<"douban_id", "movie_douban_id", "movie_id">>),
         id_col |-> First(<<"id", "movie_id">>)]

\* Lines 129-144: the rows of movies.csv are read into the mapping.
RECURSIVE LoadIdRows(_, _, _)
LoadIdRows(mapping, rows, cols) ==
    IF rows = <<>> THEN mapping
    ELSE LET row == Head(rows)
             douban == Strip(row[cols.douban_col[1]])
             internal_raw == IF cols.id_col # <<>> THEN row[cols.id_col[1]]
                             ELSE douban
             internal_id == ParseInt(internal_raw)
         IN  LoadIdRows(
                 IF douban = <<>> \/ internal_id = <<>> THEN mapping
                 ELSE DictSet(mapping, douban, internal_id[1]),
                 Tail(rows), cols)

\* Lines 108-146: load_movie_id_map.
load_movie_id_map(csv) ==
    IF csv.header = <<>> THEN <<>>
    ELSE IF detect_columns(csv.header).douban_col = <<>> THEN <<>>
    ELSE LoadIdRows(<<>>, csv.rows, detect_columns(csv.header))

\* Lines 153-176: normalize_text.
normalize_text(value, max_len) ==
    IF value = None THEN <<>>
    ELSE SubSeq(Strip(Squeeze(value)), 1, Min2(Len(Strip(Squeeze(value))), max_len))

\* Lines 181-205: collect_users, over the records of movie_ratings.jsonl and
\* then of movie_watch_records.jsonl.
RECURSIVE collect_users(_, _)
collect_users(users, recs) ==
    IF recs = <<>> THEN users
    ELSE LET rec == Head(recs)
             user_hash == Strip(OrEmpty(rec.user_hash))
             username_raw == normalize_text(OrEmpty(rec.username_raw), 50)
         IN  collect_users(
                 IF user_hash = <<>> \/ DictHas(users, user_hash) THEN users
                 ELSE DictSet(users, user_hash,
                          [name |-> username_raw,
                           email |-> user_hash \o
                               <<64, 100, 111, 117, 98, 97, 110, 46, 101, 120,
                                 97, 109, 112, 108, 101>>]),
                 Tail(recs))

\* Lines 208-233: build_users_csv; the dict returned, from user_hash to id.
user_id_map(users) ==
    LET hashes == SortStrs(DictKeys(users)) IN
    [i \in 1..Len(hashes) |-> <<hashes[i], EnumerateFrom1(i)>>]

\* Lines 208-233: build_users_csv; users.csv.
UsersCsv(users) ==
    LET ids == user_id_map(users) IN
    [header |-> <<"id", "user_hash", "name", "email">>,
     rows |-> [i \in 1..Len(ids) |->
                  LET info == DictGet(users, ids[i][1]) IN
                  [id |-> IntToStr(ids[i][2]),
                   user_hash |-> ids[i][1],
                   name |-> normalize_text(OrEmpty(info.name), 50),
                   email |-> normalize_text(OrEmpty(info.email), 100)]]]

\* Lines 238-298: build_movie_ratings; rows are the rows written so far.
RECURSIVE build_movie_ratings(_, _, _, _)
build_movie_ratings(rows, recs, movie_id_map, user_ids) ==
    IF recs = <<>> THEN rows
    ELSE LET rec == Head(recs)
             movie_did == Strip(OrEmpty(rec.movie_douban_id))
             user_hash == Strip(OrEmpty(rec.user_hash))
             rating == ParseInt(rec.rating)
         IN  build_movie_ratings(
                 IF \/ movie_did = <<>> \/ ~DictHas(movie_id_map, movie_did)
                    \/ user_hash = <<>> \/ ~DictHas(user_ids, user_hash)
                    \/ rating = <<>>
                 THEN rows
                 ELSE Append(rows,
                          [id |-> IntToStr(Len(rows) + 1),
                           movie_id |-> IntToStr(DictGet(movie_id_map, movie_did)),
                           user_id |-> IntToStr(DictGet(user_ids, user_hash)),
                           rating |-> IntToStr(rating[1]),
                           created_at |-> Strip(OrEmpty(rec.created_at)),
                           review |-> normalize_text(OrEmpty(rec.review), 1000)]),
                 Tail(recs), movie_id_map, user_ids)

\* Lines 303-357: build_watching_records.
RECURSIVE build_watching_records(_, _, _, _)
build_watching_records(rows, recs, movie_id_map, user_ids) ==
    IF recs = <<>> THEN rows
    ELSE LET rec == Head(recs)
             movie_did == Strip(OrEmpty(rec.movie_douban_id))
             user_hash == Strip(OrEmpty(rec.user_hash))
         IN  build_watching_records(
                 IF \/ movie_did = <<>> \/ ~DictHas(movie_id_map, movie_did)
                    \/ user_hash = <<>> \/ ~DictHas(user_ids, user_hash)
                 THEN rows
                 ELSE Append(rows,
                          [id |-> IntToStr(Len(rows) + 1),
                           movie_id |-> IntToStr(DictGet(movie_id_map, movie_did)),
                           user_id |-> IntToStr(DictGet(user_ids, user_hash)),
                           status |-> IF Strip(OrEmpty(rec.status)) = <<>>
                                      THEN S_unknown
                                      ELSE Strip(OrEmpty(rec.status)),
                           created_at |-> Strip(OrEmpty(rec.created_at)),
                           star |-> IF rec.star THEN S_TRUE ELSE S_FALSE]),
                 Tail(recs), movie_id_map, user_ids)

\* main(), lines 362-380: one run of stage 05.  Without movies.csv the run ends
\* in load_movie_id_map, before anything is written.
RunStage05 ==
    /\ "movies.csv" \in etl_files
    /\ LET movie_id_map == load_movie_id_map(movies_csv)
           users == collect_users(<<>>, raw_ratings \o raw_watch)
           \* the counters of lines 253-298 and 318-357
           NoMovie(rec) ==
               LET movie_did == Strip(OrEmpty(rec.movie_douban_id)) IN
               movie_did = <<>> \/ ~DictHas(movie_id_map, movie_did)
           NoUser(rec) ==
               LET user_hash == Strip(OrEmpty(rec.user_hash)) IN
               user_hash = <<>> \/ ~DictHas(user_id_map(users), user_hash)
           Counted(recs, rows) ==
               [read |-> Len(recs),
                total |-> Len(rows),
                skipped_no_movie |->
                    Cardinality({i \in 1..Len(recs) : NoMovie(recs[i])}),
                skipped_no_user |->
                    Cardinality({i \in 1..Len(recs) :
                                    ~NoMovie(recs[i]) /\ NoUser(recs[i])})]
       IN  /\ users_csv' = UsersCsv(users)
           /\ movie_ratings_csv' =
                  [header |-> <<"id", "movie_id", "user_id", "rating",
                                "created_at", "review">>,
                   rows |-> build_movie_ratings(<<>>, raw_ratings, movie_id_map,
                                                user_id_map(users))]
           /\ watching_records_csv' =
                  [header |-> <<"id", "movie_id", "user_id", "status",
                                "created_at", "star">>,
                   rows |-> build_watching_records(<<>>, raw_watch, movie_id_map,
                                                   user_id_map(users))]
           /\ stage05_cnt' =
                  [ratings |-> Counted(raw_ratings, movie_ratings_csv'.rows),
                   watch |-> Counted(raw_watch, watching_records_csv'.rows)]
    /\ etl_files' = etl_files \cup
           {"users.csv", "movie_ratings.csv", "watching_records.csv"}
    /\ UNCHANGED <<movies_csv, movie_id_map_csv, persons_csv, person_id_map_csv>>
    /\ UNCHANGED <<storeVars, stage01_input, basic_dicts>>
    /\ UNCHANGED <<ratingVars, watchVars, rawVars, scanVars>>
    /\ UNCHANGED <<awardVars, bridge, creditVars, seedVars>>
    /\ UNCHANGED <<crawlVars, basic_lines, raw_root, endVars>>

(***************************************************************************)
(* Stage 09: build_app_users_for_sql                                       *)
(***************************************************************************)

\* A mutant of build_app_users_for_sql: the name column of users.csv is
\* written as the name.
RECURSIVE build_app_users_named(_, _, _, _)
build_app_users_named(out, rows, seen_hashes, seen_mails) ==
    IF rows = <<>> THEN out
    ELSE LET row == Head(rows)
             user_hash == Strip(row.user_hash)
             email == Strip(row.email)
             keep == /\ row.id # <<>> /\ user_hash # <<>> /\ email # <<>>
                     /\ ParseInt(row.id) # <<>>
                     /\ user_hash \notin seen_hashes
                     /\ email \notin seen_mails
         IN  IF ~keep
             THEN build_app_users_named(out, Tail(rows), seen_hashes, seen_mails)
             ELSE build_app_users_named(
                      Append(out, [id |-> IntToStr(ParseInt(row.id)[1]),
                                   name |-> row.name,
                                   mail |-> email]),
                      Tail(rows), seen_hashes \cup {user_hash},
                      seen_mails \cup {email})

\* Lines 59-89: the loop over the rows of users.csv; out are the rows written
\* so far.  A row without id, user_hash or email, or whose id is not an
\* integer, is skipped, and so is a row whose hash or mail was seen before.
RECURSIVE build_app_users_for_sql(_, _, _, _)
build_app_users_for_sql(out, rows, seen_hashes, seen_mails) ==
    IF rows = <<>> THEN out
    ELSE LET row == Head(rows)
             user_hash == Strip(row.user_hash)
             email == Strip(row.email)
             keep == /\ row.id # <<>> /\ user_hash # <<>> /\ email # <<>>
                     /\ ParseInt(row.id) # <<>>
                     /\ user_hash \notin seen_hashes
                     /\ email \notin seen_mails
         IN  IF ~keep
             THEN build_app_users_for_sql(out, Tail(rows), seen_hashes,
                                          seen_mails)
             ELSE build_app_users_for_sql(
                      Append(out, [id |-> IntToStr(ParseInt(row.id)[1]),
                                   name |-> user_hash,
                                   mail |-> email]),
                      Tail(rows), seen_hashes \cup {user_hash},
                      seen_mails \cup {email})

\* Lines 40-94: one run of stage 09.  Without users.csv the run ends in
\* FileNotFoundError before the output is opened.
RunStage09 ==
    /\ "users.csv" \in etl_files
    /\ app_users_csv' =
           [header |-> <<"id", "name", "mail">>,
            rows |-> build_app_users_for_sql(<<>>, users_csv.rows, {}, {})]
    /\ etl_files' = etl_files \cup {"app_users_for_sql.csv"}
    /\ UNCHANGED <<movies_csv, movie_id_map_csv, persons_csv, person_id_map_csv,
                   users_csv, movie_ratings_csv, watching_records_csv>>
    /\ UNCHANGED <<storeVars, stage01_input, basic_dicts>>
    /\ UNCHANGED <<ratingVars, watchVars, rawVars, scanVars>>
    /\ UNCHANGED <<awardVars, bridge, creditVars, seedVars>>
    /\ UNCHANGED <<crawlVars, basic_lines, raw_root, stage05_cnt, topVars,
                   retryVars>>

AppUserInit == app_users_csv = NoCsv

(***************************************************************************)
(* The record store grows, and the stages are run on it                    *)
(***************************************************************************)

\* The records the crawlers may append to the files of the store.
NoAward ==
    [movie_douban_id |-> D1(9), festival_name |-> None, festival_year |-> None,
     festival_url |-> None, award_name |-> None, award_type |-> None,
     is_winner |-> FALSE, person_douban_id |-> None, person_name |-> None,
     extra_desc |-> None]
NoRating ==
    [movie_douban_id |-> None, user_hash |-> None, username_raw |-> None,
     rating |-> None, created_at |-> None, review |-> None]
StoreValues ==
    [basic |->
        {[NoBasic EXCEPT !.movie_douban_id = D1(9), !.title = Ch.A,
                         !.genres = <<Ch.B>>],
         [NoBasic EXCEPT !.movie_douban_id = D2(1, 0), !.title = Ch.A,
                         !.genres = <<Ch.C, Ch.A>>],
         [NoBasic EXCEPT !.title = Ch.A, !.genres = <<QQ, Ch.A>>]},
     person |->
        {[NoPerson EXCEPT !.person_douban_id = D1(5), !.name = Ch.A,
                          !.birth_region = Ch.B],
         [NoPerson EXCEPT !.person_douban_id = D2(1, 2), !.name = Ch.B,
                          !.birth_region = Ch.X,
                          !.file = "person_details.jsonl"]},
     details |->
        {[movie_douban_id |-> D1(9), regions |-> <<Ch.C, Ch.A>>,
          languages |-> <<Ch.A>>],
         [movie_douban_id |-> D2(1, 0), regions |-> <<>>,
          languages |-> <<Ch.B, <<SP>>, Ch.A>>]},
     awards |->
        {[NoAward EXCEPT !.festival_name = Ch.T, !.festival_year = <<50, 48, 50, 48>>,
                         !.award_name = Ch.A, !.award_type = <<77, 111, 118, 105, 101>>],
         [NoAward EXCEPT !.festival_name = Ch.T, !.festival_year = <<50, 48, 50, 48>>,
                         !.festival_url = Ch.C, !.award_name = Ch.A,
                         !.award_type = <<80, 101, 114, 115, 111, 110>>],
         [NoAward EXCEPT !.festival_name = Ch.T, !.award_name = Ch.A],
         [NoAward EXCEPT !.festival_year = <<50, 48, 50, 48>>, !.award_name = Ch.B,
                         !.award_type = <<77, 111, 118, 105, 101>>]},
     ratings |->
        {[NoRating EXCEPT !.movie_douban_id = D1(9), !.user_hash = Ch.B,
                          !.username_raw = <<SP, 88, SP, SP, 84>>,
                          !.rating = D1(8), !.created_at = D1(1)],
         [NoRating EXCEPT !.movie_douban_id = D2(1, 0), !.user_hash = Ch.A,
                          !.rating = D1(6), !.review = Ch.C],
         [NoRating EXCEPT !.movie_douban_id = D1(9), !.user_hash = Ch.A]},
     watch |->
        {[movie_douban_id |-> D1(9), user_hash |-> Ch.C, username_raw |-> None,
          status |-> S_Watched_sp, created_at |-> D1(1), star |-> TRUE],
         [movie_douban_id |-> D1(3), user_hash |-> Ch.A, username_raw |-> Ch.X,
          status |-> None, created_at |-> None, star |-> FALSE]}]

\* Records in the store.
MaxStore == 2
StoreCount ==
    Len(raw_basic) + Len(raw_person) + Len(raw_details) + Len(raw_awards)
        + Len(raw_ratings) + Len(raw_watch)

\* A crawler appends a record to one file of its partition.
AppendRaw ==
    /\ StoreCount < MaxStore
    /\ \/ /\ \E obj \in StoreValues.basic : raw_basic' = Append(raw_basic, obj)
          /\ UNCHANGED <<raw_person, storeVars>>
       \/ /\ \E obj \in StoreValues.person : raw_person' = Append(raw_person, obj)
          /\ UNCHANGED <<raw_basic, storeVars>>
       \/ /\ \E obj \in StoreValues.details :
                 raw_details' = Append(raw_details, obj)
          /\ UNCHANGED <<raw_basic, raw_person, raw_awards, raw_ratings, raw_watch>>
       \/ /\ \E obj \in StoreValues.awards : raw_awards' = Append(raw_awards, obj)
          /\ UNCHANGED <<raw_basic, raw_person, raw_details, raw_ratings, raw_watch>>
       \/ /\ \E obj \in StoreValues.ratings :
                 raw_ratings' = Append(raw_ratings, obj)
          /\ UNCHANGED <<raw_basic, raw_person, raw_details, raw_awards, raw_watch>>
       \/ /\ \E obj \in StoreValues.watch : raw_watch' = Append(raw_watch, obj)
          /\ UNCHANGED <<raw_basic, raw_person, raw_details, raw_awards, raw_ratings>>
    /\ UNCHANGED <<raw_summary, raw_cast, seed_file>>
    /\ UNCHANGED <<stage01_input, basic_dicts, users_csv, movie_ratings_csv,
                   watching_records_csv>>
    /\ UNCHANGED <<ratingVars, watchVars, scanVars, dimVars>>
    /\ UNCHANGED moreVars

\* main() of stage 03, lines 430-438: one run over the whole store.
RunStage03 ==
    /\ scan_pc \in {"idle", "done"}
    /\ scan_pc' = "done"
    /\ movies' = collect_movies(raw_basic, raw_summary)
    /\ seed_names' = load_person_seed_names(seed_file)
    /\ persons' = collect_persons(seed_names', raw_person)
    /\ etl_files' = etl_files \cup
           {"movies.csv", "movie_id_map.csv", "persons.csv", "person_id_map.csv"}
    /\ movies_csv' = MoviesCsv(movies')
    /\ movie_id_map_csv' = MovieIdMapCsv(movies')
    /\ persons_csv' = PersonsCsv(persons')
    /\ person_id_map_csv' = PersonIdMapCsv(persons')
    /\ UNCHANGED <<ratingVars, watchVars, rawVars, idsVars>>
    /\ UNCHANGED moreVars

IdsInit ==
    /\ raw_details = <<>>
    /\ raw_awards = <<>>
    /\ raw_ratings = <<>>
    /\ raw_watch = <<>>
    /\ stage01_input = <<>>
    /\ basic_dicts =
           [dict_genre |-> NoCsv, dict_language |-> NoCsv, dict_region |-> NoCsv,
            dict_festival |-> NoCsv, dict_award |-> NoCsv]
    /\ users_csv = NoCsv
    /\ movie_ratings_csv = NoCsv
    /\ watching_records_csv = NoCsv

IdsNext ==
    \/ AppendRaw
    \/ RunStage01
    \/ RunStage03
    \/ RunStage05
    \/ RunStage09

(***************************************************************************)
(* Stage 02: build_movie_bridges_and_awards                                *)
(***************************************************************************)

\* Lines 115-190: the (movie_douban_id, name) pairs of the three staging
\* bridges, each a sorted set.
build_movie_genre_region_language(basic, details) ==
    LET Str(x) == Strip(OrEmpty(x))
        Pairs(file, f) ==
            {p \in UNION {{<<Str(file[i].movie_douban_id), Strip(n)>> :
                              n \in SeqRange(file[i][f])} : i \in 1..Len(file)} :
                p[1] # <<>> /\ p[2] # <<>>}
        Before(a, b) == KeyLess(<<a[1], 0, a[2]>>, <<b[1], 0, b[2]>>)
        Sorted(S) ==
            [r \in 1..Cardinality(S) |->
                CHOOSE x \in S : Cardinality({y \in S : Before(y, x)}) = r - 1]
    IN  [movie_genres |-> Sorted(Pairs(basic, "genres")),
         movie_regions |-> Sorted(Pairs(details, "regions")),
         movie_languages |-> Sorted(Pairs(details, "languages"))]

\* Lines 195-260: the staging award records, in scan order.
build_award_records(file) ==
    LET Str(x) == Strip(OrEmpty(x))
        Kept(obj) ==
            /\ Str(obj.movie_douban_id) # <<>>
            /\ Str(obj.festival_name) # <<>>
            /\ obj.festival_year # None
            /\ Str(obj.award_name) # <<>>
            /\ ParseInt(obj.festival_year) # <<>>
        kept == SelectSeq(file, Kept)
    IN  [i \in 1..Len(kept) |->
            LET obj == kept[i] IN
            [festival_name |-> Str(obj.festival_name),
             festival_year |-> IntToStr(ParseInt(obj.festival_year)[1]),
             award_name |-> Str(obj.award_name),
             award_type |-> Str(obj.award_type),
             is_winner |-> IF obj.is_winner THEN D1(1) ELSE D1(0),
             movie_douban_id |-> Str(obj.movie_douban_id),
             person_douban_id |-> Str(obj.person_douban_id),
             person_name |-> Str(obj.person_name),
             extra_desc |-> IF obj.extra_desc = None THEN <<>>
                            ELSE Strip(obj.extra_desc)]]

\* main(), lines 323-332: one run of stage 02 writes the four staging files.
RunStage02 ==
    LET bridges == build_movie_genre_region_language(raw_basic, raw_details)
        BridgeCsv(pairs, name_col) ==
            [header |-> <<"movie_douban_id", name_col>>,
             rows |-> [i \in 1..Len(pairs) |->
                          [c \in {"movie_douban_id", name_col} |->
                              IF c = name_col THEN pairs[i][2] ELSE pairs[i][1]]]]
    IN  /\ staging' =
               [movie_genres |-> BridgeCsv(bridges.movie_genres, "genre_name"),
                movie_regions |-> BridgeCsv(bridges.movie_regions, "region_name"),
                movie_languages |->
                    BridgeCsv(bridges.movie_languages, "language_name"),
                award_records |->
                    [header |-> <<"festival_name", "festival_year", "award_name",
                                  "award_type", "is_winner", "movie_douban_id",
                                  "person_douban_id", "person_name", "extra_desc">>,
                     rows |-> build_award_records(raw_awards)]]
        /\ etl_files' = etl_files \cup
               {"movie_genres.csv", "movie_regions.csv", "movie_languages.csv",
                "award_records.csv"}
        /\ UNCHANGED <<movies_csv, movie_id_map_csv, persons_csv,
                       person_id_map_csv>>
        /\ UNCHANGED <<award_sql, bridge, creditVars, seedVars, lateVars>>
        /\ UNCHANGED <<ratingVars, watchVars, rawVars, scanVars, idsVars>>

(***************************************************************************)
(* Stages 06 and 08: award_record_for_sql.csv                              *)
(***************************************************************************)

\* row.get(col) of a csv.DictReader row: None where the file has no such column.
RowGet(row, col) == IF col \in DOMAIN row THEN row[col] ELSE None

\* mapping[key] = value, for every entry <<key, value>> in turn; <<>> stands for
\* a row the loop skips.
RECURSIVE DictFromEntries(_, _)
DictFromEntries(mapping, entries) ==
    IF entries = <<>> THEN mapping
    ELSE DictFromEntries(
             IF Head(entries) = <<>> THEN mapping
             ELSE DictSet(mapping, Head(entries)[1], Head(entries)[2]),
             Tail(entries))

\* Stage 06, lines 64-175: load_movie_id_map, load_person_id_map,
\* load_festival_map and load_award_map.
LoadMaps06(movies_file, persons_file, dict_festival, dict_award) ==
    LET IdEntry(row, did_col) ==
            LET did == Strip(OrEmpty(RowGet(row, did_col)))
                mid_raw == RowGet(row, "id")
            IN  IF did = <<>> \/ mid_raw = None \/ ParseInt(mid_raw) = <<>>
                THEN <<>>
                ELSE <<did, ParseInt(mid_raw)[1]>>
        FestEntry(row) ==
            LET name == Strip(OrEmpty(RowGet(row, "name")))
                year_raw == RowGet(row, "year")
                fid_raw == RowGet(row, "festival_id")
            IN  IF name = <<>> \/ year_raw = None \/ fid_raw = None THEN <<>>
                ELSE IF ParseInt(year_raw) = <<>> \/ ParseInt(fid_raw) = <<>>
                THEN <<>>
                ELSE <<<<name, ParseInt(year_raw)[1]>>, ParseInt(fid_raw)[1]>>
        AwardEntry(row) ==
            LET fest_raw == RowGet(row, "festival_id")
                name == Strip(OrEmpty(RowGet(row, "name")))
                award_type == Strip(OrEmpty(RowGet(row, "award_type")))
                aid_raw == RowGet(row, "award_id")
            IN  IF fest_raw = None \/ name = <<>> \/ award_type = <<>>
                       \/ aid_raw = None
                THEN <<>>
                ELSE IF ParseInt(fest_raw) = <<>> \/ ParseInt(aid_raw) = <<>>
                THEN <<>>
                ELSE <<<<ParseInt(fest_raw)[1], name, award_type>>,
                       ParseInt(aid_raw)[1]>>
    IN  [movie_map |->
             DictFromEntries(<<>>, [i \in 1..Len(movies_file.rows) |->
                 IdEntry(movies_file.rows[i], "movie_douban_id")]),
         person_map |->
             DictFromEntries(<<>>, [i \in 1..Len(persons_file.rows) |->
                 IdEntry(persons_file.rows[i], "person_douban_id")]),
         fest_map |->
             DictFromEntries(<<>>, [i \in 1..Len(dict_festival.rows) |->
                 FestEntry(dict_festival.rows[i])]),
         award_map |->
             DictFromEntries(<<>>, [i \in 1..Len(dict_award.rows) |->
                 AwardEntry(dict_award.rows[i])])]

\* A mutant of ResolvePerson: a person who is not in the map leaves a row with
\* an empty person_id.
ResolvePersonAsNull(person_did, person_map) ==
    IF person_did # <<>> /\ DictHas(person_map, person_did)
    THEN [skip |-> FALSE, person_id |-> IntToStr(DictGet(person_map, person_did))]
    ELSE [skip |-> FALSE, person_id |-> <<>>]

\* Stage 06, lines 274-284 and 292: the person of a row; person_id is the cell
\* written.
ResolvePerson(person_did, person_map) ==
    IF person_did # <<>>
    THEN IF ~DictHas(person_map, person_did)
         THEN [skip |-> TRUE, person_id |-> <<>>]
         ELSE [skip |-> FALSE,
               person_id |-> IntToStr(DictGet(person_map, person_did))]
    ELSE [skip |-> FALSE, person_id |-> <<>>]

\* Stage 06, lines 232-296: what the loop does with one row of
\* award_records.csv; why is the branch taken, out the row written, if any.
ResolveAward06(row, maps) ==
    LET fest_name == Strip(OrEmpty(RowGet(row, "festival_name")))
        fest_year_raw == RowGet(row, "festival_year")
        award_name == Strip(OrEmpty(RowGet(row, "award_name")))
        award_type == Lower(Strip(OrEmpty(RowGet(row, "award_type"))))
        is_winner_raw == OrEmpty(RowGet(row, "is_winner"))
        movie_did == Strip(OrEmpty(RowGet(row, "movie_douban_id")))
        person_did == Strip(OrEmpty(RowGet(row, "person_douban_id")))
        extra_desc == OrEmpty(RowGet(row, "extra_desc"))
        fest_year == ParseInt(fest_year_raw)
        Dropped(why) == [why |-> why, out |-> <<>>]
        \* lines 180-188: normalize_bool_from_int_str
        is_winner ==
            IF Lower(Strip(is_winner_raw)) \in
                   {D1(1), <<116>>, S_true, <<121, 101, 115>>, <<121>>}
            THEN S_TRUE ELSE S_FALSE
        \* lines 191-200: clean_description
        squeezed == Strip(Squeeze(extra_desc))
        description == SubSeq(squeezed, 1, Min2(50, Len(squeezed)))
    IN  IF fest_name = <<>> \/ fest_year_raw = None \/ award_name = <<>>
               \/ movie_did = <<>>
        THEN Dropped("basic")
        ELSE IF fest_year = <<>> THEN Dropped("year")
        ELSE IF ~DictHas(maps.fest_map, <<fest_name, fest_year[1]>>)
        THEN Dropped("festival")
        ELSE LET fest_id == DictGet(maps.fest_map, <<fest_name, fest_year[1]>>)
                 award_key == <<fest_id, award_name, award_type>>
                 person == ResolvePerson(person_did, maps.person_map)
             IN  IF ~DictHas(maps.award_map, award_key) THEN Dropped("award")
                 ELSE IF ~DictHas(maps.movie_map, movie_did)
                 THEN Dropped("movie")
                 ELSE IF person.skip THEN Dropped("person")
                 ELSE [why |-> "written",
                       out |-> <<[award_id |->
                                      IntToStr(DictGet(maps.award_map, award_key)),
                                  movie_id |->
                                      IntToStr(DictGet(maps.movie_map, movie_did)),
                                  person_id |-> person.person_id,
                                  is_winner |-> is_winner,
                                  description |-> description]>>]

\* Stage 08, lines 38-133: load_movie_map, load_person_map, load_festival_map
\* and load_award_map.
LoadMaps08(movies_file, persons_file, dict_festival, dict_award) ==
    LET IdEntry(row, did_col) ==
            LET did == Strip(OrEmpty(RowGet(row, did_col)))
                mid_raw == RowGet(row, "id")
            IN  IF did = <<>> \/ ~Truthy(mid_raw) \/ ParseInt(mid_raw) = <<>>
                THEN <<>>
                ELSE <<did, ParseInt(mid_raw)[1]>>
        FestEntry(row) ==
            LET name == Strip(OrEmpty(RowGet(row, "name")))
                year_raw == RowGet(row, "year")
                id_raw == RowGet(row, "id")
            IN  IF name = <<>> \/ ~Truthy(year_raw) \/ ~Truthy(id_raw) THEN <<>>
                ELSE IF ParseInt(year_raw) = <<>> \/ ParseInt(id_raw) = <<>>
                THEN <<>>
                ELSE <<<<name, ParseInt(year_raw)[1]>>, ParseInt(id_raw)[1]>>
        AwardEntry(row) ==
            LET id_raw == RowGet(row, "id")
                fest_raw == RowGet(row, "fest_id")
                name == Strip(OrEmpty(RowGet(row, "name")))
                award_type == Strip(OrEmpty(RowGet(row, "type")))
            IN  IF ~Truthy(id_raw) \/ ~Truthy(fest_raw) \/ name = <<>>
                       \/ award_type = <<>>
                THEN <<>>
                ELSE IF ParseInt(id_raw) = <<>> \/ ParseInt(fest_raw) = <<>>
                THEN <<>>
                ELSE <<<<ParseInt(fest_raw)[1], name, award_type>>,
                       ParseInt(id_raw)[1]>>
    IN  [movie_map |->
             DictFromEntries(<<>>, [i \in 1..Len(movies_file.rows) |->
                 IdEntry(movies_file.rows[i], "movie_douban_id")]),
         person_map |->
             DictFromEntries(<<>>, [i \in 1..Len(persons_file.rows) |->
                 IdEntry(persons_file.rows[i], "person_douban_id")]),
         fest_map |->
             DictFromEntries(<<>>, [i \in 1..Len(dict_festival.rows) |->
                 FestEntry(dict_festival.rows[i])]),
         award_map |->
             DictFromEntries(<<>>, [i \in 1..Len(dict_award.rows) |->
                 AwardEntry(dict_award.rows[i])])]

\* Stage 08, lines 168-224: what the loop does with one row of
\* award_records.csv.
ResolveAward08(row, maps) ==
    LET fest_name == Strip(OrEmpty(RowGet(row, "festival_name")))
        fest_year_raw == Strip(OrEmpty(RowGet(row, "festival_year")))
        award_name == Strip(OrEmpty(RowGet(row, "award_name")))
        award_type == Strip(OrEmpty(RowGet(row, "award_type")))
        is_winner_raw == Strip(OrEmpty(RowGet(row, "is_winner")))
        movie_did == Strip(OrEmpty(RowGet(row, "movie_douban_id")))
        person_did == Strip(OrEmpty(RowGet(row, "person_douban_id")))
        extra_desc == Strip(OrEmpty(RowGet(row, "extra_desc")))
        fest_year == ParseInt(fest_year_raw)
        Dropped(why) == [why |-> why, out |-> <<>>]
        is_winner ==
            IF is_winner_raw \in {D1(1), S_true, S_TRUE, <<116>>, <<84>>}
            THEN S_TRUE ELSE S_FALSE
        replaced == [i \in 1..Len(extra_desc) |->
                        IF extra_desc[i] \in {10, 13} THEN SP ELSE extra_desc[i]]
        desc == SubSeq(Strip(replaced), 1, Min2(50, Len(Strip(replaced))))
    IN  IF movie_did = <<>> \/ ~DictHas(maps.movie_map, movie_did)
        THEN Dropped("movie")
        ELSE IF fest_year = <<>> THEN Dropped("festival")
        ELSE IF ~DictHas(maps.fest_map, <<fest_name, fest_year[1]>>)
        THEN Dropped("festival")
        ELSE LET fest_id == DictGet(maps.fest_map, <<fest_name, fest_year[1]>>)
                 award_key == <<fest_id, award_name, award_type>>
             IN  IF ~DictHas(maps.award_map, award_key) THEN Dropped("award")
                 ELSE IF person_did # <<>> /\ ~DictHas(maps.person_map, person_did)
                 THEN Dropped("person")
                 ELSE [why |-> "written",
                       out |-> <<[award_id |->
                                      IntToStr(DictGet(maps.award_map, award_key)),
                                  movie_id |->
                                      IntToStr(DictGet(maps.movie_map, movie_did)),
                                  person_id |->
                                      IF person_did = <<>> THEN <<>>
                                      ELSE IntToStr(DictGet(maps.person_map,
                                                            person_did)),
                                  is_winner |-> is_winner,
                                  description |-> desc]>>]

\* The file and the counters a run leaves, res[i] being what the loop did with
\* row i of the files read.
AwardRun(stage, read, res) ==
    LET written == SelectSeq(res, LAMBDA r : r.why = "written") IN
    [by |-> stage,
     error |-> "",
     read |-> read,
     csv |-> [header |-> <<"award_id", "movie_id", "person_id", "is_winner",
                           "description">>,
              rows |-> [i \in 1..Len(written) |-> written[i].out[1]]],
     total |-> Len(res),
     written |-> Len(written),
     skipped |-> [why \in {"movie", "person", "festival", "award"} |->
                     Cardinality({i \in 1..Len(res) : res[i].why = why})]]

\* The files stages 06 and 08 open for reading.
AwardFilesRead ==
    [award_records |-> staging.award_records, movies |-> movies_csv,
     persons |-> persons_csv, dict_festival |-> basic_dicts.dict_festival,
     dict_award |-> basic_dicts.dict_award]

\* Stage 06, build_award_record_for_sql, lines 203-307: one run.
RunStage06 ==
    /\ {"award_records.csv", "movies.csv", "persons.csv"} \subseteq etl_files
    /\ IF {"dict_festival.csv", "dict_award.csv"} \subseteq etl_files
       THEN /\ LET maps == LoadMaps06(movies_csv, persons_csv,
                                      basic_dicts.dict_festival,
                                      basic_dicts.dict_award)
                   rows == staging.award_records.rows
               IN  award_sql' =
                       AwardRun("06", AwardFilesRead,
                                [i \in 1..Len(rows) |-> ResolveAward06(rows[i], maps)])
            /\ etl_files' = etl_files \cup {"award_record_for_sql.csv"}
       \* open() of a dictionary that is not there, before any output is opened
       ELSE /\ award_sql' = [award_sql EXCEPT !.error = "FileNotFoundError"]
            /\ UNCHANGED etl_files
    /\ UNCHANGED <<movies_csv, movie_id_map_csv, persons_csv, person_id_map_csv>>
    /\ UNCHANGED <<staging, bridge, creditVars, seedVars, lateVars>>
    /\ UNCHANGED <<ratingVars, watchVars, rawVars, scanVars, idsVars>>

\* Stage 08, build_award_records, lines 142-235: one run.
RunStage08 ==
    /\ {"award_records.csv", "movies.csv", "persons.csv"} \subseteq etl_files
    /\ IF {"dict_festival.csv", "dict_award.csv"} \subseteq etl_files
       THEN /\ LET maps == LoadMaps08(movies_csv, persons_csv,
                                      basic_dicts.dict_festival,
                                      basic_dicts.dict_award)
                   rows == staging.award_records.rows
               IN  award_sql' =
                       AwardRun("08", AwardFilesRead,
                                [i \in 1..Len(rows) |-> ResolveAward08(rows[i], maps)])
            /\ etl_files' = etl_files \cup {"award_record_for_sql.csv"}
       \* open() of a dictionary that is not there, before any output is opened
       ELSE /\ award_sql' = [award_sql EXCEPT !.error = "FileNotFoundError"]
            /\ UNCHANGED etl_files
    /\ UNCHANGED <<movies_csv, movie_id_map_csv, persons_csv, person_id_map_csv>>
    /\ UNCHANGED <<staging, bridge, creditVars, seedVars, lateVars>>
    /\ UNCHANGED <<ratingVars, watchVars, rawVars, scanVars, idsVars>>


\* The award observations a crawler may have stored.
S_2020 == <<50, 48, 50, 48>>
AwardValues ==
    LET Seen == [NoAward EXCEPT !.festival_name = Ch.T, !.festival_year = S_2020,
                                !.award_name = Ch.A]
        ToPerson == [Seen EXCEPT !.award_type = <<80, 101, 114, 115, 111, 110>>,
                                 !.person_douban_id = D1(5), !.person_name = Ch.X,
                                 !.extra_desc = <<SP, 88, 10, SP, 84>>]
    IN  {[Seen EXCEPT !.award_type = <<77, 111, 118, 105, 101>>,
                      !.is_winner = TRUE],
         ToPerson,
         [ToPerson EXCEPT !.person_douban_id = D1(7)],
         [Seen EXCEPT !.movie_douban_id = D1(3),
                      !.award_type = <<77, 111, 118, 105, 101>>],
         [Seen EXCEPT !.festival_name = <<34, 84, 34>>,
                      !.award_type = <<77, 111, 118, 105, 101>>],
         [Seen EXCEPT !.award_name = Ch.B]}

\* movies.csv and persons.csv as stage 03 writes them, and as the tables movie
\* and person are exported, with their id column.
SqlFileValues ==
    {[movies |-> MoviesCsv(<<<<D1(9), [NoBasic EXCEPT !.movie_douban_id = D1(9),
                                   !.title = Ch.A] @@ [summary |-> None]>>>>),
      persons |-> PersonsCsv(<<<<D1(5), [NoPerson EXCEPT !.person_douban_id = D1(5),
                                    !.name = Ch.X]>>>>)],
     [movies |-> [header |-> <<"id", "movie_douban_id", "title">>,
                  rows |-> <<[id |-> D1(1), movie_douban_id |-> D1(9),
                              title |-> Ch.A]>>],
      persons |-> [header |-> <<"id", "person_douban_id", "name">>,
                   rows |-> <<[id |-> D1(4), person_douban_id |-> D1(5),
                               name |-> Ch.X]>>]]}

\* data/etl/basic_dicts before stage 01 has run: nothing, or the files
\* festivals (id, name, year) and awards (id, fest_id, name, type).
DictFileValues ==
    {[dict_genre |-> NoCsv, dict_language |-> NoCsv, dict_region |-> NoCsv,
      dict_festival |-> NoCsv, dict_award |-> NoCsv],
     [dict_genre |-> NoCsv, dict_language |-> NoCsv, dict_region |-> NoCsv,
      dict_festival |->
          [header |-> <<"id", "name", "year">>,
           rows |-> <<[id |-> D1(1), name |-> Ch.T, year |-> S_2020]>>],
      dict_award |->
          [header |-> <<"id", "fest_id", "name", "type">>,
           rows |-> <<[id |-> D1(1), fest_id |-> D1(1), name |-> Ch.A,
                       type |-> <<77, 111, 118, 105, 101>>],
                      [id |-> D1(2), fest_id |-> D1(1), name |-> Ch.A,
                       type |-> <<80, 101, 114, 115, 111, 110>>]>>]]}

\* Records in movie_awards.jsonl.
MaxAwards == 2

NoAwardRun == AwardRun("", <<>>, <<>>)

AwardInit ==
    /\ staging = [movie_genres |-> NoCsv, movie_regions |-> NoCsv,
                  movie_languages |-> NoCsv, award_records |-> NoCsv]
    /\ award_sql = NoAwardRun

(***************************************************************************)
(* 2_build_person_seeds.py                                                 *)
(***************************************************************************)

\* Lines 93-258: collect_person_stats, over the records in scan order, each
\* with the kind of the file it stands in; an order is <<n>> or None.
RECURSIVE collect_person_stats(_, _)
collect_person_stats(person_stats, scan) ==
    IF scan = <<>> THEN person_stats
    ELSE LET kind == Head(scan)[1]
             rec == Head(scan)[2]
             Str(f) == Strip(OrEmpty(RowGet(rec, f)))
             pid == Str("person_douban_id")
             mid == Str("movie_douban_id")
             name == IF kind = "award" \/ Str("name") = <<>> THEN None
                     ELSE Str("name")
             department == Str("department")
             role == Str("role")
             order_raw == RowGet(rec, "order")
             order == IF order_raw = None THEN None
                      ELSE IF ParseInt(order_raw) = <<>> THEN None
                      ELSE ParseInt(order_raw)
             old == IF DictHas(person_stats, pid) THEN DictGet(person_stats, pid)
                    ELSE [person_douban_id |-> pid, name |-> name,
                          cast_movies |-> {}, crew_movies |-> {},
                          cast_orders |-> <<>>, best_cast_order |-> None,
                          departments |-> {}, roles |-> {},
                          director_movies |-> {}, writer_movies |-> {},
                          award_wins |-> 0, award_noms |-> 0]
             named == [old EXCEPT
                          !.name = IF Truthy(name) /\ ~Truthy(@) THEN name ELSE @,
                          !.departments = IF department # <<>>
                                          THEN @ \cup {department} ELSE @,
                          !.roles = IF role # <<>> THEN @ \cup {role} ELSE @]
             dept_lower == Lower(department)
             role_lower == Lower(role)
             S_director == <<100, 105, 114, 101, 99, 116, 111, 114>>
             S_writer == <<119, 114, 105, 116, 101, 114>>
             new ==
                 CASE kind = "cast" ->
                        [named EXCEPT
                            !.cast_movies = @ \cup {mid},
                            !.cast_orders =
                                IF order = None THEN @
                                ELSE IF ~DictHas(@, mid) THEN DictSet(@, mid, order[1])
                                ELSE IF order[1] < DictGet(@, mid)
                                THEN DictSet(@, mid, order[1])
                                ELSE @,
                            !.best_cast_order =
                                IF order = None THEN @
                                ELSE IF @ = None THEN order
                                ELSE IF order[1] < @[1] THEN order
                                ELSE @]
                   [] kind = "crew" ->
                        [named EXCEPT
                            !.crew_movies = @ \cup {mid},
                            !.director_movies =
                                IF \/ Contains(department, <<23548, 28436>>)
                                   \/ Contains(dept_lower, S_director)
                                   \/ Contains(role_lower, S_director)
                                THEN @ \cup {mid} ELSE @,
                            !.writer_movies =
                                IF \/ Contains(department, <<32534, 21095>>)
                                   \/ Contains(dept_lower, S_writer)
                                   \/ Contains(role_lower, S_writer)
                                THEN @ \cup {mid} ELSE @]
                   [] OTHER ->
                        IF rec.is_winner THEN [old EXCEPT !.award_wins = @ + 1]
                        ELSE [old EXCEPT !.award_noms = @ + 1]
             skipped ==
                 IF kind = "award"
                 THEN rec.award_type # <<80, 101, 114, 115, 111, 110>> \/ pid = <<>>
                 ELSE pid = <<>> \/ mid = <<>>
         IN  collect_person_stats(
                 IF skipped THEN person_stats ELSE DictSet(person_stats, pid, new),
                 Tail(scan))

\* A mutant of SeedReasons: a person with awards but no third nomination and no
\* win is an awarded person too.
SeedReasonsAnyAward(r) ==
    (IF r.total_cast_movies >= 3
           \/ (r.total_cast_movies >= 2 /\ r.best_cast_order # None
                  /\ r.best_cast_order[1] <= 3)
     THEN <<"core_actor">> ELSE <<>>)
    \o (IF r.is_director /\ r.director_count >= 2
        THEN <<"core_director">> ELSE <<>>)
    \o (IF r.is_writer /\ r.writer_count >= 3 THEN <<"core_writer">> ELSE <<>>)
    \o (IF r.award_wins >= 1 \/ r.award_noms >= 1
        THEN <<"awarded_person">> ELSE <<>>)

\* Lines 345-360: seed_reasons of a record, before the frequent persons are
\* chosen.
SeedReasons(r) ==
    (IF r.total_cast_movies >= 3
           \/ (r.total_cast_movies >= 2 /\ r.best_cast_order # None
                  /\ r.best_cast_order[1] <= 3)
     THEN <<"core_actor">> ELSE <<>>)
    \o (IF r.is_director /\ r.director_count >= 2
        THEN <<"core_director">> ELSE <<>>)
    \o (IF r.is_writer /\ r.writer_count >= 3 THEN <<"core_writer">> ELSE <<>>)
    \o (IF r.award_wins >= 1 \/ r.award_noms >= 3
        THEN <<"awarded_person">> ELSE <<>>)

\* Lines 263-400: build_person_seeds, from the person_stats collected: the
\* records written to persons_seed.jsonl.
build_person_seeds(person_stats, max_frequent, min_total_movies_for_frequent) ==
    LET S_director == <<100, 105, 114, 101, 99, 116, 111, 114>>
        S_writer == <<119, 114, 105, 116, 101, 114>>
        Sum(d) == LET RECURSIVE Go(_)
                      Go(i) == IF i = 0 THEN 0
                               ELSE Go(i - 1) + (IF d[i][2] <= 3 THEN 3
                                                 ELSE IF d[i][2] <= 8 THEN 2
                                                 ELSE 1)
                  IN  Go(Len(d))
        Measured(stats) ==
            LET director_count == Cardinality(stats.director_movies)
                writer_count == Cardinality(stats.writer_movies)
                other_crew_count ==
                    Cardinality((stats.crew_movies \ stats.director_movies)
                                    \ stats.writer_movies)
                actor_score == Sum(stats.cast_orders)
                crew_score == director_count * 3 + writer_count * 2
                                  + other_crew_count * 1
                award_score == stats.award_wins * 3 + stats.award_noms * 1
            IN  [person_douban_id |-> stats.person_douban_id,
                 name |-> stats.name,
                 total_movies |->
                     Cardinality(stats.cast_movies \cup stats.crew_movies),
                 total_cast_movies |-> Cardinality(stats.cast_movies),
                 total_crew_movies |-> Cardinality(stats.crew_movies),
                 best_cast_order |-> stats.best_cast_order,
                 is_actor |-> Cardinality(stats.cast_movies) > 0,
                 is_director |->
                     \/ \E d \in stats.departments :
                            Contains(d, <<23548, 28436>>)
                                \/ Contains(Lower(d), S_director)
                     \/ \E r \in stats.roles : Contains(Lower(r), S_director),
                 is_writer |->
                     \/ \E d \in stats.departments :
                            Contains(d, <<32534, 21095>>)
                                \/ Contains(Lower(d), S_writer)
                     \/ \E r \in stats.roles : Contains(Lower(r), S_writer),
                 director_count |-> director_count,
                 writer_count |-> writer_count,
                 award_wins |-> stats.award_wins,
                 award_noms |-> stats.award_noms,
                 actor_score |-> actor_score,
                 crew_score |-> crew_score,
                 award_score |-> award_score,
                 total_score |-> actor_score + crew_score + award_score]
        measured == [i \in 1..Len(person_stats) |-> Measured(person_stats[i][2])]
        all_records ==
            LET kept == SelectSeq(measured, LAMBDA r : r.total_movies # 0) IN
            [i \in 1..Len(kept) |->
                [p \in {"record", "seed_reasons"} |->
                    IF p = "record" THEN kept[i] ELSE SeedReasons(kept[i])]]
        pool == SelectSeq([i \in 1..Len(all_records) |-> i],
                    LAMBDA i :
                        /\ all_records[i].seed_reasons = <<>>
                        /\ all_records[i].record.total_movies
                               >= min_total_movies_for_frequent
                        /\ all_records[i].record.total_score > 0)
        frequent_candidates ==
            StableSort(pool,
                [k \in 1..Len(pool) |->
                    <<<<>>, 0 - all_records[pool[k]].record.total_score, <<>>>>])
        \* frequent_candidates[:max_frequent]
        stop == IF max_frequent >= 0 THEN Min2(max_frequent, Len(pool))
                ELSE IF Len(pool) + max_frequent > 0 THEN Len(pool) + max_frequent
                ELSE 0
        selected_frequent == {frequent_candidates[k] : k \in 1..stop}
        Written(r) == [f \in DOMAIN r \ {"director_count", "writer_count"} |-> r[f]]
        tagged == [i \in 1..Len(all_records) |->
                      Written(all_records[i].record)
                          @@ [seed_reasons |->
                                  all_records[i].seed_reasons
                                      \o (IF i \in selected_frequent
                                          THEN <<"frequent_person">> ELSE <<>>)]]
    IN  SelectSeq(tagged, LAMBDA r : r.seed_reasons # <<>>)

\* Lines 115-258 and 432-440: main, over the files of the worker directories
\* in sorted order, with the arguments parse_args accepted; the seeds are
\* written to persons_seed.jsonl.
RunSeeds ==
    LET Tag(kind, recs) == [i \in 1..Len(recs) |-> <<kind, recs[i]>>]
        scan == Tag("cast", raw_cast) \o Tag("crew", raw_crew["0"])
                    \o Tag("award", raw_awards) \o Tag("crew", raw_crew["1"])
    IN  /\ seed_pc = "start"
        /\ seed_pc' = "written"
        /\ seed_file' = build_person_seeds(collect_person_stats(<<>>, scan),
                             seed_in.max_frequent,
                             seed_in.min_total_movies_for_frequent)
        /\ UNCHANGED <<raw_basic, raw_summary, raw_person, raw_cast>>
        /\ UNCHANGED <<ratingVars, watchVars, scanVars, dimVars, idsVars>>
        /\ UNCHANGED <<awardVars, bridge, creditVars, seed_in, lateVars>>

SeedInit ==
    /\ seed_in = [max_frequent |-> 300, min_total_movies_for_frequent |-> 2]
    /\ seed_pc = "start"

(***************************************************************************)
(* 1_crawl_movies.py: the seeds of a worker                                *)
(***************************************************************************)

\* Lines 120-170: load_seed_movie_ids_for_worker over the lines of
\* movies_seed.jsonl, each line given by its movie_douban_id; max_movies is
\* None or <<k>>.
load_seed_movie_ids_for_worker(worker_id, n_workers, max_movies, lines) ==
    LET n == IF n_workers <= 0 THEN 1 ELSE n_workers
        w == IF worker_id < 0 \/ worker_id >= n THEN 0 ELSE worker_id
        kept == SelectSeq([i \in 1..Len(lines) |-> <<i - 1, Strip(lines[i])>>],
                    LAMBDA l : l[1] % n = w /\ l[2] # <<>>)
        ids == [i \in 1..Len(kept) |-> kept[i][2]]
    IN  IF max_movies = None THEN ids
        ELSE SubSeq(ids, 1, Min2(Len(ids), IF max_movies[1] < 1 THEN 1
                                           ELSE max_movies[1]))

\* The largest worker id a process is started with.
MaxWorkerId == 3

\* Lines 289-330: main of one crawl process, up to the opening of its files in
\* data/raw/{worker_id}/.
StartCrawlWorker ==
    \E worker_id \in (0 - 1)..MaxWorkerId : \E max_arg \in {0, 1} :
        LET max_movies == IF max_arg > 0 THEN <<max_arg>> ELSE None IN
        /\ \A r \in worker_runs : r.worker_id # worker_id
        /\ worker_runs' = worker_runs \cup
               {[worker_id |-> worker_id,
                 max_movies |-> max_movies,
                 movie_ids |-> load_seed_movie_ids_for_worker(worker_id,
                                   num_workers, max_movies, movie_seed_file),
                 worker_dir |-> IF worker_id < 0
                                THEN <<45>> \o IntToStr(0 - worker_id)
                                ELSE IntToStr(worker_id)]}
        /\ raw_root' = TRUE
        /\ UNCHANGED <<movie_seed_file, num_workers>>
        /\ UNCHANGED <<ratingVars, watchVars, rawVars, scanVars, dimVars, idsVars>>
        /\ UNCHANGED <<awardVars, bridge, creditVars, seedVars, basic_lines,
                       stage05_cnt, endVars>>

CrawlInit ==
    /\ movie_seed_file = <<>>
    /\ num_workers = 3
    /\ worker_runs = {}

(***************************************************************************)
(* movie_info/chart_top_list.py: the ranking list of a type                *)
(***************************************************************************)

\* The response to one request of the ranking endpoint: fetch_html raises
\* (an HTTP error status, a network error), or returns a text that is not
\* JSON, JSON whose root is not a list, or a JSON list of items.
NoTopPage == [kind |-> "list", items |-> <<>>]

\* Lines 48-71: the dicts of the page, or the empty list.
_fetch_top_list_json(page) ==
    IF page.kind # "list" THEN <<>>
    ELSE SelectSeq(page.items, LAMBDA x : x.kind = "dict")

\* Lines 73-92: the id and the title of an item as <<item>>; <<>> for the
\* None of an item without an id.
_parse_movie_item(raw) ==
    LET movie_id == Strip(OrEmpty(raw.id)) IN
    IF movie_id = <<>> THEN <<>>
    ELSE <<[movie_douban_id |-> movie_id, title |-> Strip(OrEmpty(raw.title))]>>

\* Line 113: this_limit = min(page_size, total_limit - start)
this_limit == Min2(top_in.page_size, top_in.total_limit - top_start)

\* The items of the endpoint, and the pages it may answer to a request of
\* limit items: at most limit items.
TopItemValues ==
    {[kind |-> "dict", id |-> D1(1), title |-> Ch.A],
     [kind |-> "dict", id |-> None, title |-> Ch.B],
     [kind |-> "str", id |-> None, title |-> None]}
TopPages(limit) ==
    {[kind |-> k, items |-> <<>>] : k \in {"raise", "undecodable", "object"}}
        \cup UNION {{[kind |-> "list", items |-> it] :
                        it \in [1..n -> TopItemValues]} : n \in 0..limit}

\* Lines 112-117: the loop condition holds and the page is requested.
FetchTopPage ==
    /\ top_pc = "loop"
    /\ top_start < top_in.total_limit
    /\ top_page' \in TopPages(this_limit)
    /\ top_pc' = "page"
    /\ UNCHANGED <<top_in, top_start, top_results>>
    /\ UNCHANGED <<ratingVars, watchVars, rawVars, scanVars, dimVars, idsVars>>
    /\ UNCHANGED <<awardVars, bridge, creditVars, seedVars>>
    /\ UNCHANGED <<crawlVars, basic_lines, raw_root, stage05_cnt, app_users_csv,
                   retryVars>>

\* Lines 115-135: the rest of the iteration.  An exception of fetch_html
\* leaves the function; an empty list goes back to the loop condition with
\* the same start; a short page ends the loop.
HandleTopPage ==
    /\ top_pc = "page"
    /\ LET raw_list == _fetch_top_list_json(top_page)
           Parsed(i) == _parse_movie_item(raw_list[i])
           items == [i \in DOMAIN raw_list |-> Parsed(i)]
           RECURSIVE Kept(_)
           Kept(i) == IF i > Len(items) THEN <<>> ELSE items[i] \o Kept(i + 1)
       IN  IF top_page.kind = "raise"
           THEN top_pc' = "raised" /\ UNCHANGED <<top_start, top_results>>
           ELSE IF raw_list = <<>>
           THEN top_pc' = "loop" /\ UNCHANGED <<top_start, top_results>>
           ELSE /\ top_results' =
                       top_results \o Kept(1)
                /\ IF Len(raw_list) < this_limit
                   THEN top_pc' = "returned" /\ top_start' = top_start
                   ELSE top_pc' = "loop" /\ top_start' = top_start + this_limit
    /\ UNCHANGED <<top_in, top_page>>
    /\ UNCHANGED <<ratingVars, watchVars, rawVars, scanVars, dimVars, idsVars>>
    /\ UNCHANGED <<awardVars, bridge, creditVars, seedVars>>
    /\ UNCHANGED <<crawlVars, basic_lines, raw_root, stage05_cnt, app_users_csv,
                   retryVars>>

\* Lines 112 and 137: the loop condition fails and results is returned.
ReturnTopMovies ==
    /\ top_pc = "loop"
    /\ ~(top_start < top_in.total_limit)
    /\ top_pc' = "returned"
    /\ UNCHANGED <<top_in, top_start, top_results, top_page>>
    /\ UNCHANGED <<ratingVars, watchVars, rawVars, scanVars, dimVars, idsVars>>
    /\ UNCHANGED <<awardVars, bridge, creditVars, seedVars>>
    /\ UNCHANGED <<crawlVars, basic_lines, raw_root, stage05_cnt, app_users_csv,
                   retryVars>>

\* Lines 96-109: the call with its default arguments.
TopInit ==
    /\ top_in = [total_limit |-> 100, page_size |-> 20]
    /\ top_start = 0
    /\ top_results = <<>>
    /\ top_page = NoTopPage
    /\ top_pc = "loop"

(***************************************************************************)
(* The crawlers: a fetch with retries                                      *)
(***************************************************************************)

\* crawler_config.py
MAX_RETRY == 3

\* What one call of fetch_html (fetch_person_details in the persons crawler)
\* may do: return a value, raise requests.HTTPError with a status, or raise
\* another exception.  fetch_person_details may return None.
FetchOutcomes(crawler) ==
    {[kind |-> "ok", value |-> v] : v \in {Ch.A, <<>>}}
        \cup {[kind |-> k, value |-> None] : k \in {"http404", "http500", "error"}}
        \cup (IF crawler = "persons" THEN {[kind |-> "ok", value |-> None]}
              ELSE {})

\* 4_crawl_movie_comments.py, lines 94-99: the comments crawler does not retry
\* an HTTP 404.
Is404Skip(crawler, outcome) == crawler = "comments" /\ outcome.kind = "http404"

\* A mutant of GivesUp: the attempts are compared with > .
GivesUpLate(attempt) == attempt > MAX_RETRY

\* 1_crawl_movies.py, lines 107-109: if attempt >= MAX_RETRY: break
GivesUp(attempt) == attempt >= MAX_RETRY

\* One iteration of the loop `for attempt in range(1, MAX_RETRY + 1)`, and the
\* return that follows the loop when the iteration was its last.
FetchAttempt ==
    /\ retry_pc = "loop"
    /\ retry_attempt <= MAX_RETRY
    /\ \E outcome \in FetchOutcomes(retry_crawler) :
           LET fetch == [ev |-> "fetch", outcome |-> outcome.kind,
                         value |-> outcome.value]
               Sleep(ev) == [ev |-> ev, outcome |-> "", value |-> None]
           IN
           IF outcome.kind = "ok"
           THEN /\ retry_log' = retry_log \o <<fetch, Sleep("polite_sleep")>>
                /\ retry_result' = outcome.value
                /\ retry_pc' = "returned"
                /\ retry_attempt' = retry_attempt
           ELSE IF Is404Skip(retry_crawler, outcome) \/ GivesUp(retry_attempt)
           THEN /\ retry_log' = Append(retry_log, fetch)
                /\ retry_result' = None
                /\ retry_pc' = "returned"
                /\ retry_attempt' = retry_attempt
           ELSE /\ retry_log' = retry_log \o <<fetch, Sleep("backoff")>>
                /\ retry_result' = None
                /\ retry_attempt' = retry_attempt + 1
                /\ retry_pc' = IF retry_attempt + 1 <= MAX_RETRY THEN "loop"
                               ELSE "returned"
    /\ UNCHANGED retry_crawler
    /\ UNCHANGED <<ratingVars, watchVars, rawVars, scanVars, dimVars, idsVars>>
    /\ UNCHANGED <<awardVars, bridge, creditVars, seedVars>>
    /\ UNCHANGED <<crawlVars, basic_lines, raw_root, stage05_cnt, app_users_csv,
                   topVars>>

RetryInit ==
    /\ retry_crawler = "movies"
    /\ retry_attempt = 1
    /\ retry_log = <<>>
    /\ retry_result = None
    /\ retry_pc = "loop"

EndInit == AppUserInit /\ TopInit /\ RetryInit

NoCount == [read |-> 0, total |-> 0, skipped_no_movie |-> 0, skipped_no_user |-> 0]
LateInit ==
    /\ CrawlInit /\ basic_lines = <<>> /\ raw_root = TRUE
    /\ stage05_cnt = [ratings |-> NoCount, watch |-> NoCount]
    /\ EndInit

(***************************************************************************)
(* The lines of a JSONL file                                               *)
(***************************************************************************)

\* A line of a file is blank, is not JSON ("invalid"), or is JSON whose root
\* is an "object" (value holds it), an "array", a "number" or "null".

\* Stage 01, lines 74-87: load_jsonl_lines yields the dicts of the file.
load_jsonl_lines(lines) ==
    LET kept == SelectSeq(lines, LAMBDA l : l.kind = "object")
    IN  [i \in 1..Len(kept) |-> kept[i].value]

\* Stage 03, lines 79-91 (stage 02, lines 98-110): iter_jsonl yields whatever
\* json.loads returned.
iter_jsonl(lines) == SelectSeq(lines, LAMBDA l : l.kind \notin {"blank", "invalid"})

\* main() of stage 03 over the lines of movies_basic.jsonl: the loop of
\* collect_movies (line 181) calls obj.get on every value iter_jsonl yields,
\* which raises AttributeError unless the value is a dict; the files are
\* written after the scans (lines 430-438).
RunStage03Lines ==
    LET yielded == iter_jsonl(basic_lines)
        objs == [i \in 1..Len(yielded) |-> yielded[i].value]
    IN  /\ scan_pc = "idle"
        /\ IF \A i \in 1..Len(yielded) : yielded[i].kind = "object"
           THEN /\ scan_pc' = "done"
                /\ movies' = collect_movies(objs, raw_summary)
                /\ seed_names' = load_person_seed_names(seed_file)
                /\ persons' = collect_persons(seed_names', raw_person)
                /\ etl_files' = etl_files \cup
                       {"movies.csv", "movie_id_map.csv", "persons.csv",
                        "person_id_map.csv"}
                /\ movies_csv' = MoviesCsv(movies')
                /\ movie_id_map_csv' = MovieIdMapCsv(movies')
                /\ persons_csv' = PersonsCsv(persons')
                /\ person_id_map_csv' = PersonIdMapCsv(persons')
           ELSE /\ scan_pc' = "AttributeError"
                /\ UNCHANGED <<movies, seed_names, persons, dimVars>>
        /\ UNCHANGED <<ratingVars, watchVars, rawVars, idsVars>>
        /\ UNCHANGED moreVars

(***************************************************************************)
(* Stage 04: build_credits                                                 *)
(***************************************************************************)

\* Lines 56-126: load_id_map_from_csv; a file without an id column gives the
\* int of the Douban id.
load_id_map_from_csv(csv, kind) ==
    LET First(candidates) ==
            LET hits == {i \in 1..Len(candidates) :
                            candidates[i] \in SeqRange(csv.header)}
            IN  IF hits = {} THEN <<>>
                ELSE <<candidates[CHOOSE i \in hits : \A j \in hits : i <= j]>>
        cols == IF kind = "movie"
                THEN [douban_col |-> First(<<"douban_id", "movie_douban_id",
                                             "movie_id">>),
                      id_col |-> First(<<"id", "movie_id">>)]
                ELSE [douban_col |-> First(<<"douban_id", "person_douban_id",
                                             "person_id">>),
                      id_col |-> First(<<"id", "person_id">>)]
    IN  IF csv.header = <<>> THEN <<>>
        ELSE IF cols.douban_col = <<>> THEN <<>>
        ELSE LoadIdRows(<<>>, csv.rows, cols)

\* Lines 163-192: load_positions; exists tells whether positions.csv exists.
load_positions(exists, csv) ==
    LET Entry(row) ==
            LET name == Strip(OrEmpty(RowGet(row, "name")))
                id_raw == RowGet(row, "id")
            IN  IF name = <<>> THEN <<>>
                ELSE IF id_raw = None THEN <<>>
                ELSE IF ParseInt(id_raw) = <<>> THEN <<>>
                ELSE <<name, ParseInt(id_raw)[1]>>
        entries == SelectSeq([i \in 1..Len(csv.rows) |-> Entry(csv.rows[i])],
                             LAMBDA e : e # <<>>)
        ids == {entries[i][2] : i \in 1..Len(entries)}
    IN  IF ~exists
        THEN [positions_by_name |-> <<>>, rows |-> <<>>, max_id |-> 0]
        ELSE [positions_by_name |-> DictFromEntries(<<>>, entries),
              rows |-> [i \in 1..Len(entries) |->
                           [id |-> IntToStr(entries[i][2]), name |-> entries[i][1]]],
              max_id |-> IF ids = {} THEN 0
                         ELSE CHOOSE m \in ids : \A n \in ids : n <= m]

S_Unknown == <<85, 110, 107, 110, 111, 119, 110>>

\* A mutant of get_or_create_position_id: a new row for every call.
create_position_id(pos, name_raw) ==
    LET joined == Strip(Squeeze(OrEmpty(name_raw)))
        name == IF joined = <<>> THEN S_Unknown ELSE joined
        new_id == pos.max_id + 1
    IN  [id |-> new_id,
         pos |-> [positions_by_name |-> DictSet(pos.positions_by_name, name, new_id),
                  rows |-> Append(pos.rows, [id |-> IntToStr(new_id),
                                             name |-> name]),
                  max_id |-> new_id]]

\* Lines 204-224: get_or_create_position_id; pos holds positions_by_name, rows
\* and max_id_ref[0], and the result the id and what pos has become.
get_or_create_position_id(pos, name_raw) ==
    LET joined == Strip(Squeeze(OrEmpty(name_raw)))
        name == IF joined = <<>> THEN S_Unknown ELSE joined
        new_id == pos.max_id + 1
    IN  IF DictHas(pos.positions_by_name, name)
        THEN [id |-> DictGet(pos.positions_by_name, name), pos |-> pos]
        ELSE [id |-> new_id,
              pos |-> [positions_by_name |->
                           DictSet(pos.positions_by_name, name, new_id),
                       rows |-> Append(pos.rows, [id |-> IntToStr(new_id),
                                                  name |-> name]),
                       max_id |-> new_id]]

\* Lines 232-268: extract_role_name.  _PAREN_RE matches at the leftmost
\* bracket that has a closing bracket after it on its line, up to the first
\* closing bracket.
extract_role_name(role_raw) ==
    LET role_field == Strip(role_raw)
        n == Len(role_field)
        Cut(x) == SubSeq(x, 1, Min2(50, Len(x)))
        Closing(i) == {j \in (i + 1)..n : role_field[j] \in {41, 65289}}
        starts == {i \in 1..n :
                      /\ role_field[i] \in {40, 65288}
                      /\ \E j \in Closing(i) :
                             \A k \in (i + 1)..(j - 1) : role_field[k] # 10}
        m_start == CHOOSE i \in starts : \A j \in starts : i <= j
        m_end == CHOOSE j \in Closing(m_start) : \A k \in Closing(m_start) : j <= k
        group == Strip(SubSeq(role_field, m_start + 1, m_end - 1))
        inner == IF Len(group) >= 2
                      /\ SubSeq(group, 1, 2) \in {<<37197, SP>>, <<39280, SP>>}
                 THEN Strip(SubSeq(group, 3, Len(group)))
                 ELSE group
        idx == CHOOSE i \in 1..n :
                   role_field[i] = 39280 /\ \A j \in 1..(i - 1) : role_field[j] # 39280
        candidate == StripChars(SubSeq(role_field, idx + 1, n),
                                {SP, 65306, 58, 65292, 44})
    IN  IF ~Truthy(role_raw) THEN <<35282, 33394>>
        ELSE IF starts # {} /\ inner # <<>> THEN Cut(inner)
        ELSE IF 39280 \in SeqRange(role_field) /\ candidate # <<>>
        THEN Cut(candidate)
        ELSE Cut(role_field)

\* Lines 271-281: is_principal_by_order.
is_principal_by_order(order_val) ==
    IF order_val = None THEN FALSE
    ELSE IF ParseInt(order_val) = <<>> THEN FALSE
    ELSE ParseInt(order_val)[1] > 0 /\ ParseInt(order_val)[1] <= 3

\* Lines 286-353: build_crew_credit, the loop over the records of
\* movie_crew.jsonl; acc holds the positions, the rows written and the
\* counters.
RECURSIVE build_crew_credit(_, _, _, _)
build_crew_credit(acc, recs, movie_id_map, person_id_map) ==
    IF recs = <<>> THEN acc
    ELSE LET rec == Head(recs)
             movie_did == Strip(OrEmpty(rec.movie_douban_id))
             person_did == Strip(OrEmpty(rec.person_douban_id))
             role_field == Strip(OrEmpty(rec.role))
             department == Strip(OrEmpty(rec.department))
             pos_raw == IF role_field # <<>> THEN role_field
                        ELSE IF department # <<>> THEN department
                        ELSE S_Unknown
             pos_name == Strip(Squeeze(pos_raw))
             got == get_or_create_position_id(acc.pos, pos_name)
         IN  build_crew_credit(
                 IF movie_did = <<>> \/ ~DictHas(movie_id_map, movie_did)
                 THEN [acc EXCEPT !.skipped_no_movie = @ + 1]
                 ELSE IF person_did = <<>> \/ ~DictHas(person_id_map, person_did)
                 THEN [acc EXCEPT !.skipped_no_person = @ + 1]
                 ELSE [acc EXCEPT
                          !.pos = got.pos,
                          !.rows = Append(@,
                              [movie_id |-> IntToStr(DictGet(movie_id_map, movie_did)),
                               person_id |->
                                   IntToStr(DictGet(person_id_map, person_did)),
                               position_id |-> IntToStr(got.id),
                               is_principal |->
                                   IF is_principal_by_order(rec.order)
                                   THEN S_TRUE ELSE S_FALSE]),
                          !.total = @ + 1],
                 Tail(recs), movie_id_map, person_id_map)

\* Lines 356-411: build_cast_credit.
build_cast_credit(recs, movie_id_map, person_id_map) ==
    LET Did(rec, f) == Strip(OrEmpty(rec[f]))
        NoMovie(rec) ==
            Did(rec, "movie_douban_id") = <<>>
                \/ ~DictHas(movie_id_map, Did(rec, "movie_douban_id"))
        NoPersonOf(rec) ==
            Did(rec, "person_douban_id") = <<>>
                \/ ~DictHas(person_id_map, Did(rec, "person_douban_id"))
        kept == SelectSeq(recs, LAMBDA rec : ~NoMovie(rec) /\ ~NoPersonOf(rec))
    IN  [rows |-> [i \in 1..Len(kept) |->
                      [movie_id |->
                           IntToStr(DictGet(movie_id_map,
                                            Did(kept[i], "movie_douban_id"))),
                       person_id |->
                           IntToStr(DictGet(person_id_map,
                                            Did(kept[i], "person_douban_id"))),
                       role_name |->
                           Strip(Squeeze(extract_role_name(
                               Strip(OrEmpty(kept[i].role))))),
                       is_principal |-> IF is_principal_by_order(kept[i].order)
                                        THEN S_TRUE ELSE S_FALSE]],
         total |-> Len(kept),
         skipped_no_movie |->
             Cardinality({i \in 1..Len(recs) : NoMovie(recs[i])}),
         skipped_no_person |->
             Cardinality({i \in 1..Len(recs) :
                             ~NoMovie(recs[i]) /\ NoPersonOf(recs[i])})]

\* main(), lines 414-449: one run of stage 04.  os.listdir gives the worker
\* directories in an order of its own, each time it is called.
RunStage04 ==
    /\ {"movies.csv", "persons.csv"} \subseteq etl_files
    /\ \E crew_order \in Orderings(DOMAIN raw_crew) :
           LET movie_id_map == load_id_map_from_csv(movies_csv, "movie")
               person_id_map == load_id_map_from_csv(persons_csv, "person")
               loaded == load_positions("positions.csv" \in etl_files,
                                        positions_csv)
               crew == build_crew_credit(
                           [pos |-> loaded, rows |-> <<>>, total |-> 0,
                            skipped_no_movie |-> 0, skipped_no_person |-> 0],
                           IF raw_root
                           THEN raw_crew[crew_order[1]] \o raw_crew[crew_order[2]]
                           ELSE <<>>,
                           movie_id_map, person_id_map)
           IN  /\ credit_out' =
                      [positions_loaded |-> Len(loaded.positions_by_name),
                       crew_credit |->
                           [rows |-> crew.rows, total |-> crew.total,
                            skipped_no_movie |-> crew.skipped_no_movie,
                            skipped_no_person |-> crew.skipped_no_person],
                       cast_credit |->
                           build_cast_credit(IF raw_root THEN raw_cast ELSE <<>>,
                                             movie_id_map, person_id_map)]
               /\ positions_csv' = [header |-> <<"id", "name">>,
                                    rows |-> crew.pos.rows]
    /\ etl_files' = etl_files \cup
           {"crew_credit.csv", "cast_credit.csv", "positions.csv"}
    /\ UNCHANGED <<movies_csv, movie_id_map_csv, persons_csv, person_id_map_csv>>
    /\ UNCHANGED <<raw_crew, awardVars, bridge, seedVars, lateVars>>
    /\ UNCHANGED <<ratingVars, watchVars, rawVars, scanVars, idsVars>>

\* The crew records a crawler may store.
NoCrew ==
    [movie_douban_id |-> D1(9), person_douban_id |-> D1(5), role |-> None,
     department |-> None, order |-> None]
CrewValues ==
    {[NoCrew EXCEPT !.role = Ch.A, !.order = D1(1)],
     [NoCrew EXCEPT !.role = Ch.B],
     [NoCrew EXCEPT !.department = <<SP>> \o Ch.A],
     [NoCrew EXCEPT !.movie_douban_id = D2(1, 0)],
     [NoCrew EXCEPT !.movie_douban_id = D1(3), !.role = Ch.C],
     [NoCrew EXCEPT !.person_douban_id = D1(7), !.role = Ch.C]}

\* Records in the files movie_crew.jsonl.
MaxCrew == 2

\* A crawler appends a crew record to the file of its worker directory.
AppendCrew ==
    /\ Len(raw_crew["0"]) + Len(raw_crew["1"]) < MaxCrew
    /\ \E w \in DOMAIN raw_crew, rec \in CrewValues :
           raw_crew' = [raw_crew EXCEPT ![w] = Append(@, rec)]
    /\ raw_root' = TRUE
    /\ UNCHANGED <<positions_csv, credit_out, awardVars, bridge, seedVars>>
    /\ UNCHANGED <<crawlVars, basic_lines, stage05_cnt, endVars>>
    /\ UNCHANGED <<ratingVars, watchVars, rawVars, scanVars, dimVars, idsVars>>

CreditInit ==
    /\ raw_crew = [w \in {"0", "1"} |-> <<>>]
    /\ positions_csv = NoCsv
    /\ credit_out =
           LET none == [rows |-> <<>>, total |-> 0, skipped_no_movie |-> 0,
                        skipped_no_person |-> 0]
           IN  [positions_loaded |-> 0, crew_credit |-> none,
                cast_credit |-> none]

(***************************************************************************)
(* Stage 07: build_movie_bridges_for_sql                                   *)
(***************************************************************************)

\* Lines 51-108: load_movie_id_map and load_name_id_dict, a dict from the
\* stripped name cell to the int of the id cell; a file that does not exist has
\* no rows.
load_name_id_dict(csv, id_field, name_field) ==
    DictFromEntries(<<>>,
        [i \in 1..Len(csv.rows) |->
            LET name_raw == RowGet(csv.rows[i], name_field)
                id_raw == RowGet(csv.rows[i], id_field)
            IN  IF ~Truthy(name_raw) \/ ~Truthy(id_raw) THEN <<>>
                ELSE IF ParseInt(id_raw) = <<>> THEN <<>>
                ELSE IF Strip(name_raw) = <<>> THEN <<>>
                ELSE <<Strip(name_raw), ParseInt(id_raw)[1]>>])

\* A mutant of AddPair: every resolved pair is written.
AddPairUnseen(b, pair) ==
    [b EXCEPT !.seen_pairs = @ \cup {pair},
              !.out = Append(@, [movie_id |-> IntToStr(pair[1]),
                                 genre_id |-> IntToStr(pair[2])]),
              !.total_out = @ + 1]

\* Lines 176-183: a resolved pair is written, as a row of movie_genre_for_sql.csv,
\* unless it is in seen_pairs.
AddPair(b, pair) ==
    IF pair \in b.seen_pairs
    THEN [b EXCEPT !.dedup_count = @ + 1]
    ELSE [b EXCEPT !.seen_pairs = @ \cup {pair},
                   !.out = Append(@, [movie_id |-> IntToStr(pair[1]),
                                      genre_id |-> IntToStr(pair[2])]),
                   !.total_out = @ + 1]

\* Lines 150-183: the body of the loop of build_bridge_csv for one row of the
\* source file.
BridgeRow(b, row, name_col) ==
    LET douban_raw == RowGet(row, "movie_douban_id")
        name_raw == RowGet(row, name_col)
        douban_id == Strip(douban_raw)
        name == Strip(name_raw)
        counted == [b EXCEPT !.total_src = @ + 1]
    IN  IF ~Truthy(douban_raw) \/ ~Truthy(name_raw) THEN counted
        ELSE IF douban_id = <<>> \/ name = <<>> THEN counted
        ELSE IF ~DictHas(b.movie_map, douban_id)
        THEN [counted EXCEPT !.skipped_no_movie = @ + 1]
        ELSE IF ~DictHas(b.dict_map, name)
        THEN [counted EXCEPT !.skipped_no_name = @ + 1]
        ELSE AddPair(counted,
                     <<DictGet(b.movie_map, douban_id), DictGet(b.dict_map, name)>>)

NoBridge ==
    [pc |-> "idle", movie_map |-> <<>>, dict_map |-> <<>>, source |-> <<>>,
     seen_pairs |-> {}, out |-> <<>>, total_src |-> 0, total_out |-> 0,
     skipped_no_movie |-> 0, skipped_no_name |-> 0, dedup_count |-> 0]

\* main(), lines 204-222, and build_bridge_csv up to its loop, lines 127-147:
\* the maps are loaded and the genre bridge is begun; without its source file
\* the call returns at once.
BridgeStart ==
    /\ bridge.pc = "idle"
    /\ "movies.csv" \in etl_files
    /\ LET loaded ==
               [NoBridge EXCEPT
                   !.movie_map =
                       load_name_id_dict(movies_csv, "id", "movie_douban_id"),
                   !.dict_map =
                       load_name_id_dict(basic_dicts.dict_genre, "genre_id", "name")]
       IN  IF "movie_genres.csv" \in etl_files
           THEN /\ bridge' = [loaded EXCEPT !.pc = "reading",
                                            !.source = staging.movie_genres.rows]
                /\ etl_files' = etl_files \cup {"movie_genre_for_sql.csv"}
           ELSE /\ bridge' = [loaded EXCEPT !.pc = "done"]
                /\ UNCHANGED etl_files
    /\ UNCHANGED <<movies_csv, movie_id_map_csv, persons_csv, person_id_map_csv>>
    /\ UNCHANGED <<awardVars, creditVars, seedVars, lateVars>>
    /\ UNCHANGED <<ratingVars, watchVars, rawVars, scanVars, idsVars>>

\* Lines 150-183: the loop reads the next row of the source file.
BridgeRead ==
    /\ bridge.pc = "reading"
    /\ bridge.total_src < Len(bridge.source)
    /\ bridge' = BridgeRow(bridge, bridge.source[bridge.total_src + 1],
                           "genre_name")
    /\ UNCHANGED <<awardVars, creditVars, seedVars, lateVars>>
    /\ UNCHANGED <<ratingVars, watchVars, rawVars, scanVars, dimVars, idsVars>>

\* Lines 185-193: the source file is exhausted and the files are closed.
BridgeEnd ==
    /\ bridge.pc = "reading"
    /\ bridge.total_src = Len(bridge.source)
    /\ bridge' = [bridge EXCEPT !.pc = "done"]
    /\ UNCHANGED <<awardVars, creditVars, seedVars, lateVars>>
    /\ UNCHANGED <<ratingVars, watchVars, rawVars, scanVars, dimVars, idsVars>>

BridgeInit == bridge = NoBridge

\* Rows of movie_genres.csv.
MaxBridgeRows == 3

\* The rows movie_genres.csv may hold, the movies.csv of the exported table
\* movie, and two genre dictionaries: in the second, two names have one id.
BridgeRowValues ==
    {[movie_douban_id |-> D1(9), genre_name |-> Ch.A],
     [movie_douban_id |-> <<SP>> \o D1(9), genre_name |-> Ch.A \o <<SP>>],
     [movie_douban_id |-> D1(9), genre_name |-> Ch.B],
     [movie_douban_id |-> D2(1, 0), genre_name |-> Ch.A],
     [movie_douban_id |-> D1(3), genre_name |-> Ch.A],
     [movie_douban_id |-> D1(9), genre_name |-> Ch.C],
     [movie_douban_id |-> D1(9), genre_name |-> <<>>]}
BridgeDictValues ==
    {[header |-> <<"genre_id", "name">>,
      rows |-> <<[genre_id |-> D1(1), name |-> Ch.A],
                 [genre_id |-> id_B, name |-> Ch.B]>>] : id_B \in {D1(1), D1(2)}}

\* data/etl when stage 07 is run.
BridgesInit ==
    /\ RatingInit /\ WatchInit /\ RawInit /\ ScanInit
    /\ BridgeInit /\ CreditInit /\ SeedInit /\ LateInit
    /\ raw_details = <<>> /\ raw_awards = <<>> /\ raw_ratings = <<>>
    /\ raw_watch = <<>> /\ stage01_input = <<>>
    /\ users_csv = NoCsv /\ movie_ratings_csv = NoCsv
    /\ watching_records_csv = NoCsv
    /\ award_sql = NoAwardRun
    /\ movie_id_map_csv = NoCsv /\ person_id_map_csv = NoCsv
    /\ persons_csv = NoCsv
    /\ movies_csv =
           [header |-> <<"id", "movie_douban_id">>,
            rows |-> <<[id |-> D1(1), movie_douban_id |-> D1(9)],
                       [id |-> D1(2), movie_douban_id |-> D2(1, 0)]>>]
    /\ \E dict \in BridgeDictValues :
           basic_dicts =
               [dict_genre |-> dict, dict_language |-> NoCsv, dict_region |-> NoCsv,
                dict_festival |-> NoCsv, dict_award |-> NoCsv]
    /\ \E src \in {NoCsv} \cup
               {[header |-> <<"movie_douban_id", "genre_name">>, rows |-> rows] :
                   rows \in UNION {[1..n -> BridgeRowValues] :
                                      n \in 0..MaxBridgeRows}} :
           /\ staging = [movie_genres |-> src, movie_regions |-> NoCsv,
                         movie_languages |-> NoCsv, award_records |-> NoCsv]
           /\ etl_files = {"movies.csv", "dict_genre.csv"} \cup
                  IF src = NoCsv THEN {} ELSE {"movie_genres.csv"}

BridgeNext ==
    \/ BridgeStart
    \/ BridgeRead
    \/ BridgeEnd

\* The store and data/etl as a run of the award stages may find them.
AwardsInit ==
    /\ RatingInit /\ WatchInit /\ RawInit /\ ScanInit
    /\ AwardInit /\ BridgeInit /\ CreditInit /\ SeedInit /\ LateInit
    /\ raw_details = <<>> /\ raw_ratings = <<>> /\ raw_watch = <<>>
    /\ stage01_input = <<>>
    /\ users_csv = NoCsv /\ movie_ratings_csv = NoCsv
    /\ watching_records_csv = NoCsv
    /\ movie_id_map_csv = NoCsv /\ person_id_map_csv = NoCsv
    /\ \E n \in 0..MaxAwards : raw_awards \in [1..n -> AwardValues]
    /\ \E files \in SqlFileValues :
           movies_csv = files.movies /\ persons_csv = files.persons
    /\ basic_dicts \in DictFileValues
    /\ etl_files = {"movies.csv", "persons.csv"} \cup
           IF basic_dicts.dict_festival = NoCsv THEN {}
           ELSE {"dict_festival.csv", "dict_award.csv"}

AwardsNext ==
    \/ RunStage01
    \/ RunStage02
    \/ RunStage06
    \/ RunStage08

\* The store and data/etl when the credits stage is run: stage 03 has written
\* movies.csv and persons.csv, and the cast records are those of one worker.
CreditsInit ==
    /\ RatingInit /\ WatchInit /\ ScanInit /\ IdsInit
    /\ AwardInit /\ BridgeInit /\ CreditInit /\ SeedInit
    /\ CrawlInit /\ basic_lines = <<>>
    /\ raw_root \in BOOLEAN
    /\ stage05_cnt = [ratings |-> NoCount, watch |-> NoCount]
    /\ EndInit
    /\ raw_basic = <<>> /\ raw_summary = <<>> /\ raw_person = <<>>
    /\ seed_file = <<>>
    /\ raw_cast =
           IF ~raw_root THEN <<>> ELSE
           <<[movie_douban_id |-> D1(9), person_douban_id |-> D1(5), name |-> Ch.X,
              role |-> <<28436, 21592, SP, 40, 39280, SP, 88, 41>>,
              order |-> D1(2)],
             [movie_douban_id |-> D1(9), person_douban_id |-> D1(7), name |-> Ch.X,
              role |-> None, order |-> None]>>
    /\ etl_files = {"movies.csv", "movie_id_map.csv", "persons.csv",
                    "person_id_map.csv"}
    /\ LET ms == <<<<D1(9), [NoBasic EXCEPT !.movie_douban_id = D1(9),
                                           !.title = Ch.A] @@ [summary |-> None]>>,
                   <<D2(1, 0), [NoBasic EXCEPT !.movie_douban_id = D2(1, 0),
                                              !.title = Ch.B]
                                   @@ [summary |-> None]>>>>
           ps == <<<<D1(5), [NoPerson EXCEPT !.person_douban_id = D1(5),
                                            !.name = Ch.X]>>>>
       IN  /\ movies_csv = MoviesCsv(ms)
           /\ movie_id_map_csv = MovieIdMapCsv(ms)
           /\ persons_csv = PersonsCsv(ps)
           /\ person_id_map_csv = PersonIdMapCsv(ps)

CreditsNext ==
    \/ AppendCrew
    \/ RunStage04

NoCast ==
    [movie_douban_id |-> D1(9), person_douban_id |-> D1(5), name |-> Ch.X,
     role |-> None, order |-> None]
SeedCastValues ==
    {[NoCast EXCEPT !.order = D1(1)],
     [NoCast EXCEPT !.movie_douban_id = D2(1, 0)],
     [NoCast EXCEPT !.movie_douban_id = D1(3), !.order = D1(9)],
     [NoCast EXCEPT !.person_douban_id = D1(6), !.order = D1(5), !.name = None]}
SeedCrewValues ==
    {[NoCrew EXCEPT !.person_douban_id = D1(7), !.movie_douban_id = m,
                    !.department = <<23548, 28436>>,
                    !.role = <<87, 114, 105, 116, 101, 114>>] :
         m \in {D1(9), D2(1, 0), D1(3)}}
        \cup {[NoCrew EXCEPT !.person_douban_id = D1(6),
                             !.movie_douban_id = D2(1, 0), !.department = Ch.A]}
SeedAwardValues ==
    {[NoAward EXCEPT !.award_type = <<80, 101, 114, 115, 111, 110>>,
                     !.person_douban_id = D1(8), !.is_winner = TRUE],
     [NoAward EXCEPT !.award_type = <<80, 101, 114, 115, 111, 110>>,
                     !.person_douban_id = D1(6), !.is_winner = TRUE],
     [NoAward EXCEPT !.award_type = <<80, 101, 114, 115, 111, 110>>,
                     !.person_douban_id = D1(6)]}
MaxSeedRecs == 3
SeedArgValues ==
    [max_frequent : {0 - 1, 0, 1}, min_total_movies_for_frequent : {1, 2}]

\* The record store as 2_build_person_seeds.py finds it, and its arguments.
SeedsInit ==
    /\ RatingInit /\ WatchInit /\ ScanInit /\ DimInit
    /\ AwardInit /\ BridgeInit
    /\ raw_basic = <<>> /\ raw_summary = <<>> /\ raw_person = <<>>
    /\ raw_details = <<>> /\ raw_ratings = <<>> /\ raw_watch = <<>>
    /\ stage01_input = <<>>
    /\ basic_dicts =
           [dict_genre |-> NoCsv, dict_language |-> NoCsv, dict_region |-> NoCsv,
            dict_festival |-> NoCsv, dict_award |-> NoCsv]
    /\ users_csv = NoCsv /\ movie_ratings_csv = NoCsv
    /\ watching_records_csv = NoCsv
    /\ positions_csv = NoCsv
    /\ credit_out =
           LET none == [rows |-> <<>>, total |-> 0, skipped_no_movie |-> 0,
                        skipped_no_person |-> 0]
           IN  [positions_loaded |-> 0, crew_credit |-> none,
                cast_credit |-> none]
    /\ seed_file = <<>>
    /\ seed_in \in SeedArgValues
    /\ seed_pc = "start"
    /\ LateInit
    /\ \E a \in 0..MaxSeedRecs : \E b \in 0..(MaxSeedRecs - a) :
           \E c \in 0..(MaxSeedRecs - a - b) :
               /\ raw_cast \in [1..a -> SeedCastValues]
               /\ \E crew \in [1..b -> SeedCrewValues] :
                      raw_crew = [w \in {"0", "1"} |-> IF w = "0" THEN crew ELSE <<>>]
               /\ raw_awards \in [1..c -> SeedAwardValues]
SeedsNext == RunSeeds

\* Seed identifiers in movies_seed.jsonl.
MaxSeedLines == 4
\* movies_seed.jsonl as 0_build_movie_seeds.py writes it: one line per movie,
\* sorted by movie_douban_id.
CrawlsInit ==
    /\ RatingInit /\ WatchInit /\ RawInit /\ ScanInit /\ DimInit /\ IdsInit
    /\ AwardInit /\ BridgeInit /\ CreditInit /\ SeedInit
    /\ \E ids \in SUBSET (1..MaxSeedLines) :
           movie_seed_file
               = LET ord == CHOOSE f \in Orderings(ids) :
                                \A i, j \in DOMAIN f : i < j => f[i] < f[j]
                 IN  [i \in DOMAIN ord |-> D1(ord[i])]
    /\ num_workers \in 1..3
    /\ worker_runs = {}
    /\ basic_lines = <<>>
    /\ raw_root \in BOOLEAN
    /\ stage05_cnt = [ratings |-> NoCount, watch |-> NoCount]
    /\ EndInit
CrawlsNext == StartCrawlWorker

\* Lines in movies_basic.jsonl.
MaxLines == 3
JsonLineValues ==
    {[kind |-> "object", value |-> v] :
        v \in ScanBasicValues
                 \cup {[NoBasic EXCEPT !.movie_douban_id = <<49, 97>>,
                                       !.title = Ch.B]}}
        \cup {[kind |-> k, value |-> NoBasic] :
                 k \in {"blank", "invalid", "array", "null"}}
\* A store whose movies_basic.jsonl holds lines of every kind, one of them an
\* object with the movie_douban_id "1a"; raw_basic is the objects of the file.
LinesInit ==
    /\ RatingInit /\ WatchInit /\ ScanInit /\ DimInit /\ IdsInit
    /\ AwardInit /\ BridgeInit /\ CreditInit /\ SeedInit /\ CrawlInit
    /\ raw_root = TRUE
    /\ stage05_cnt = [ratings |-> NoCount, watch |-> NoCount]
    /\ EndInit
    /\ \E n \in 0..MaxLines : basic_lines \in [1..n -> JsonLineValues]
    /\ raw_basic = load_jsonl_lines(basic_lines)
    /\ raw_summary = <<>> /\ raw_person = <<>> /\ raw_cast = <<>>
    /\ seed_file = <<>>
LinesNext == RunStage03Lines

\* The arguments of a call of fetch_top_movies_for_type.
MaxTotalLimit == 3
MaxPageSize == 2
TopListInit ==
    /\ RatingInit /\ WatchInit /\ RawInit /\ ScanInit /\ DimInit /\ IdsInit
    /\ AwardInit /\ BridgeInit /\ CreditInit /\ SeedInit
    /\ CrawlInit /\ basic_lines = <<>> /\ raw_root = TRUE
    /\ stage05_cnt = [ratings |-> NoCount, watch |-> NoCount]
    /\ AppUserInit /\ RetryInit
    /\ top_in \in [total_limit : 0..MaxTotalLimit, page_size : 1..MaxPageSize]
    /\ top_start = 0
    /\ top_results = <<>>
    /\ top_page = NoTopPage
    /\ top_pc = "loop"
TopListNext ==
    \/ FetchTopPage
    \/ HandleTopPage
    \/ ReturnTopMovies

\* A call of the fetch function of each crawler.
RetriesInit ==
    /\ RatingInit /\ WatchInit /\ RawInit /\ ScanInit /\ DimInit /\ IdsInit
    /\ AwardInit /\ BridgeInit /\ CreditInit /\ SeedInit
    /\ CrawlInit /\ basic_lines = <<>> /\ raw_root = TRUE
    /\ stage05_cnt = [ratings |-> NoCount, watch |-> NoCount]
    /\ AppUserInit /\ TopInit
    /\ retry_crawler \in {"movies", "persons", "comments"}
    /\ retry_attempt = 1
    /\ retry_log = <<>>
    /\ retry_result = None
    /\ retry_pc = "loop"
RetriesNext == FetchAttempt

(***************************************************************************)
(* Specifications                                                          *)
(***************************************************************************)

Init ==
    /\ RatingInit /\ WatchInit /\ RawInit /\ ScanInit /\ DimInit /\ IdsInit
    /\ AwardInit /\ BridgeInit /\ CreditInit /\ SeedInit /\ LateInit

\* The record store as a run of stage 03 finds it: the credit records exist.
MergeInit ==
    /\ RatingInit /\ WatchInit /\ ScanInit /\ DimInit /\ IdsInit
    /\ AwardInit /\ BridgeInit /\ CreditInit /\ SeedInit /\ LateInit
    /\ raw_basic = <<>> /\ raw_summary = <<>> /\ raw_person = <<>>
    /\ seed_file = <<>>
    /\ raw_cast = CastFile

SpecRatings == Init /\ [][RatingNext]_vars
SpecWatch == Init /\ [][WatchNext]_vars
SpecMerge == MergeInit /\ [][ScanNext]_vars
SpecIds == Init /\ [][IdsNext]_vars
SpecAwards == AwardsInit /\ [][AwardsNext]_vars
SpecBridge == BridgesInit /\ [][BridgeNext]_vars
SpecCredits == CreditsInit /\ [][CreditsNext]_vars
SpecSeeds == SeedsInit /\ [][SeedsNext]_vars
SpecCrawl == CrawlsInit /\ [][CrawlsNext]_vars
SpecLines == LinesInit /\ [][LinesNext]_vars
SpecRetry == RetriesInit /\ [][RetriesNext]_vars
\* The interpreter keeps running the call until it returns or raises.
SpecTopList == TopListInit /\ [][TopListNext]_vars /\ WF_vars(TopListNext)

(***************************************************************************)
(* C1                                                                      *)
(***************************************************************************)

\* The valid observations of the file: the positions whose row passes the
\* field, range and timestamp checks.
RatingValid(row) ==
    RatingFieldsParse(row) /\ RatingInRange(row) /\ RatingCreatedAt(row) # <<>>
RatingObs(key) ==
    {i \in 1..Len(rating_src) :
        RatingValid(rating_src[i]) /\ RatingKey(rating_src[i]) = key}
RatingObsKeys ==
    {RatingKey(rating_src[i]) :
        i \in {j \in 1..Len(rating_src) : RatingValid(rating_src[j])}}
RatingOutKey(r) == <<ParseInt(r.user_id)[1], ParseInt(r.movie_id)[1]>>
\* The first position holding the greatest timestamp of the pair.
RatingWinner(key) ==
    CHOOSE i \in RatingObs(key) :
        /\ \A j \in RatingObs(key) :
               ~StrLess(RatingCreatedAt(rating_src[i]),
                        RatingCreatedAt(rating_src[j]))
        /\ \A j \in RatingObs(key) :
               RatingCreatedAt(rating_src[j]) = RatingCreatedAt(rating_src[i])
                   => i <= j

\* C1: the written file holds at most one row per (user_id, movie_id); a pair
\* has a row exactly when it has a valid observation, and that row is the
\* first-read observation among those with the lexicographically greatest
\* created_at.
C1_LatestRatingWins ==
    rating_pc = "done" =>
        /\ \A i, j \in 1..Len(rating_out) :
               RatingOutKey(rating_out[i]) = RatingOutKey(rating_out[j]) => i = j
        /\ {RatingOutKey(rating_out[i]) : i \in 1..Len(rating_out)}
               = RatingObsKeys
        /\ \A i \in 1..Len(rating_out) :
               rating_out[i] =
                   RatingNewRow(rating_src[RatingWinner(RatingOutKey(rating_out[i]))])

\* Witness: a pair read three times, an older timestamp after the newest and
\* two different ratings on the newest timestamp; one row has been written.
C1_Witness ==
    /\ rating_pc = "done"
    /\ Len(rating_out) = 1
    /\ \E i, j, k \in 1..Len(rating_src) :
           /\ i < j /\ j < k
           /\ {i, j, k} \subseteq RatingObs(RatingOutKey(rating_out[1]))
           /\ RatingCreatedAt(rating_src[i]) = RatingCreatedAt(rating_src[j])
           /\ rating_src[i].rating # rating_src[j].rating
           /\ StrLess(RatingCreatedAt(rating_src[k]),
                      RatingCreatedAt(rating_src[i]))

(***************************************************************************)
(* C2                                                                      *)
(***************************************************************************)

WatchValid(row) ==
    WatchIdsParse(row) /\ normalize_status(row.status) # <<>>
        /\ WatchCreatedAt(row) # <<>>
WatchObs(key) ==
    {i \in 1..Len(watch_src) :
        WatchValid(watch_src[i]) /\ WatchKey(watch_src[i]) = key}
WatchObsKeys ==
    {WatchKey(watch_src[i]) :
        i \in {j \in 1..Len(watch_src) : WatchValid(watch_src[j])}}
WatchOutKey(r) == <<ParseInt(r.user_id)[1], ParseInt(r.movie_id)[1]>>
\* The precedence of the documentation: watched > watching > wishlist.
WatchRank(status) ==
    IF status = S_watched THEN 3 ELSE IF status = S_watching THEN 2 ELSE 1
\* a is strictly below b in the order (status, created_at, star).
WatchBelow(a, b) ==
    \/ WatchRank(a.status) < WatchRank(b.status)
    \/ /\ WatchRank(a.status) = WatchRank(b.status)
       /\ \/ StrLess(a.created_at, b.created_at)
          \/ (a.created_at = b.created_at /\ a.star = S_FALSE /\ b.star = S_TRUE)

\* C2: the written file holds at most one row per (user_id, movie_id); a pair
\* has a row exactly when it has a valid observation, the row is one of the
\* pair's observations and none of them is above it in the order (status
\* priority, created_at, star); a pair observed as watched is never published
\* as wishlist.
C2_WatchPrecedence ==
    watch_pc = "done" =>
        /\ \A i, j \in 1..Len(watch_out) :
               WatchOutKey(watch_out[i]) = WatchOutKey(watch_out[j]) => i = j
        /\ {WatchOutKey(watch_out[i]) : i \in 1..Len(watch_out)} = WatchObsKeys
        /\ \A i \in 1..Len(watch_out) :
               LET obs == WatchObs(WatchOutKey(watch_out[i])) IN
               /\ \E j \in obs : watch_out[i] = WatchNewRow(watch_src[j])
               /\ \A j \in obs : ~WatchBelow(watch_out[i], WatchNewRow(watch_src[j]))
               /\ (\E j \in obs : normalize_status(watch_src[j].status) = S_watched)
                      => watch_out[i].status = S_watched

\* Witness: a pair read first as watched with an early timestamp and then as
\* wishlist with a later one, and its row has been written.
C2_Witness ==
    /\ watch_pc = "done"
    /\ \E i, j \in 1..Len(watch_src) :
           /\ i < j
           /\ WatchValid(watch_src[i]) /\ WatchValid(watch_src[j])
           /\ WatchKey(watch_src[i]) = WatchKey(watch_src[j])
           /\ normalize_status(watch_src[i].status) = S_watched
           /\ normalize_status(watch_src[j].status) = S_wishlist
           /\ StrLess(WatchCreatedAt(watch_src[i]), WatchCreatedAt(watch_src[j]))
           /\ \E k \in 1..Len(watch_out) :
                  WatchOutKey(watch_out[k]) = WatchKey(watch_src[i])


(***************************************************************************)
(* C3: the ids of the fact tables                                          *)
(***************************************************************************)

ColumnValues(csv, col) == {csv.rows[i][col] : i \in 1..Len(csv.rows)}

\* C3: every movie_id of movie_ratings.csv and of watching_records.csv is an id
\* that movie_id_map.csv assigns.
C3_FactIdsAssigned ==
    /\ ColumnValues(movie_ratings_csv, "movie_id")
           \subseteq ColumnValues(movie_id_map_csv, "movie_id")
    /\ ColumnValues(watching_records_csv, "movie_id")
           \subseteq ColumnValues(movie_id_map_csv, "movie_id")

(***************************************************************************)
(* C4: the ids of N keys are 1..N, in the order of the sorted keys         *)
(***************************************************************************)

\* The i-th row carries the id i.
NumberedFrom1(csv, id_col) ==
    \A i \in 1..Len(csv.rows) : ParseInt(csv.rows[i][id_col]) = <<i>>

\* The rows are in the strict order of their keys, which are str.
AscendingKeys(csv, key_col) ==
    \A i, j \in 1..Len(csv.rows) :
        i < j => StrLess(csv.rows[i][key_col], csv.rows[j][key_col])

FestivalRowKey(row) ==
    <<row.name,
      IF row.year = <<>> THEN UnknownYearRank ELSE ParseInt(row.year)[1],
      <<>>>>
AwardRowKey(row) == <<<<>>, ParseInt(row.festival_id)[1], row.name>>

\* The rows are distinct in the columns cols and ascend in the sort key.
AscendingRows(csv, cols, RowKey(_)) ==
    \A i, j \in 1..Len(csv.rows) :
        i < j =>
            /\ \E c \in cols : csv.rows[i][c] # csv.rows[j][c]
            /\ ~KeyLess(RowKey(csv.rows[j]), RowKey(csv.rows[i]))

NumericOrderKept(csv, id_col, key_col) ==
    \A i, j \in 1..Len(csv.rows) :
        (/\ ParseInt(csv.rows[i][key_col]) # <<>>
         /\ ParseInt(csv.rows[j][key_col]) # <<>>
         /\ ParseInt(csv.rows[i][key_col])[1] < ParseInt(csv.rows[j][key_col])[1])
            => ParseInt(csv.rows[i][id_col])[1] < ParseInt(csv.rows[j][id_col])[1]

\* C5: of two movies, or two persons, with numeric Douban ids, the one with the
\* smaller number has the smaller id.
C5_NumericOrder ==
    /\ NumericOrderKept(movie_id_map_csv, "movie_id", "movie_douban_id")
    /\ NumericOrderKept(person_id_map_csv, "person_id", "person_douban_id")

(***************************************************************************)
(* C6: two runs on the same records                                        *)
(***************************************************************************)

\* C6: a run of stage 01 that reads the records its last run read writes the
\* five dictionaries as they were, and a run of stage 03 that collects what
\* its last run collected writes the id maps as they were.
C6_RerunSameIds ==
    [][/\ ("dict_award.csv" \in etl_files /\ stage01_input' = stage01_input)
            => basic_dicts' = basic_dicts
       /\ ("movie_id_map.csv" \in etl_files /\ movies' = movies
               /\ persons' = persons)
            => /\ movie_id_map_csv' = movie_id_map_csv
               /\ person_id_map_csv' = person_id_map_csv]_vars

(***************************************************************************)
(* C7: a rerun on a store that has grown                                   *)
(***************************************************************************)

RowsKept(old, new) == SeqRange(old.rows) \subseteq SeqRange(new.rows)

\* C7: the store only growing, every key numbered by a run keeps its id in the
\* next run, for the movies, the persons and the genres.
C7_IdsKeptOnGrowth ==
    [][/\ RowsKept(movie_id_map_csv, movie_id_map_csv')
       /\ RowsKept(person_id_map_csv, person_id_map_csv')
       /\ RowsKept(basic_dicts.dict_genre, basic_dicts'.dict_genre)]_vars

(***************************************************************************)
(* C8: first-wins per field                                                *)
(***************************************************************************)

MovieBasicFields == {"title", "image_url", "release_date", "runtime_minutes"}
MovieFields == MovieBasicFields \cup {"summary"}
PersonFields ==
    {"name", "avatar_url", "sex", "birth_date", "death_date",
     "birth_place_raw", "birth_region", "imdb_id"}

\* The value an observation offers for a field.
BasicOffer(obj, f) ==
    IF f = "runtime_minutes" THEN RuntimeStr(obj[f]) ELSE normalize_str(obj[f])
SeedNameOf(pid) ==
    LET hits == {i \in 1..Len(seed_file) :
                    /\ normalize_str(seed_file[i].person_douban_id) = pid
                    /\ Truthy(normalize_str(seed_file[i].name))}
    IN  IF hits = {} THEN None
        ELSE normalize_str(seed_file[CHOOSE i \in hits : \A j \in hits : j <= i].name)
DetailOffer(obj) ==
    IF obj.name = None THEN normalize_str(obj.name_cn) ELSE normalize_str(obj.name)
PersonOffer(obj, f) ==
    IF f = "name"
    THEN LET seed == SeedNameOf(normalize_str(obj.person_douban_id))
         IN  IF Truthy(seed) THEN seed ELSE DetailOffer(obj)
    ELSE normalize_str(obj[f])

\* The offers made for a field of a key, in scan order.
MovieOffers(key, f) ==
    IF f = "summary"
    THEN [i \in 1..Len(raw_summary) |->
             IF normalize_str(raw_summary[i].movie_douban_id) = key
             THEN sanitize_text_for_csv(raw_summary[i].summary) ELSE None]
    ELSE [i \in 1..Len(raw_basic) |->
             IF normalize_str(raw_basic[i].movie_douban_id) = key
             THEN BasicOffer(raw_basic[i], f) ELSE None]
PersonOffers(key, f) ==
    [i \in 1..Len(raw_person) |->
        IF normalize_str(raw_person[i].person_douban_id) = key
        THEN PersonOffer(raw_person[i], f) ELSE None]

\* The field holds the first non-empty offer, and is empty if there is none.
HoldsFirstNonEmpty(value, offers) ==
    LET full == {i \in 1..Len(offers) : Truthy(offers[i])} IN
    IF full = {} THEN ~Truthy(value)
    ELSE value = offers[CHOOSE i \in full : \A j \in full : i <= j]

FirstNonEmptyHeld ==
    /\ \A key \in DictKeys(movies) : \A f \in MovieFields :
           HoldsFirstNonEmpty(DictGet(movies, key)[f], MovieOffers(key, f))
    /\ \A key \in DictKeys(persons) : \A f \in PersonFields :
           HoldsFirstNonEmpty(DictGet(persons, key)[f], PersonOffers(key, f))

PopulatedFieldsKept ==
    /\ \A key \in DictKeys(movies) : \A f \in MovieFields :
           Truthy(DictGet(movies, key)[f])
               => /\ DictHas(movies', key)
                  /\ DictGet(movies', key)[f] = DictGet(movies, key)[f]
    /\ \A key \in DictKeys(persons) : \A f \in PersonFields :
           Truthy(DictGet(persons, key)[f])
               => /\ DictHas(persons', key)
                  /\ DictGet(persons', key)[f] = DictGet(persons, key)[f]

\* C8: in collect_movies and collect_persons a field that holds a non-empty
\* value is changed by no later observation, empty or not, and every field of
\* every merged record holds the first non-empty value offered for it in scan
\* order.
C8_FirstWins == [] FirstNonEmptyHeld /\ [][PopulatedFieldsKept]_vars

\* A movie's title was offered twice with differing non-empty values and once
\* more with an empty one, and a person's avatar twice with differing values.
C8_Witness ==
    /\ \E i, j \in 1..Len(raw_basic) :
           /\ i < j
           /\ normalize_str(raw_basic[i].movie_douban_id)
                  = normalize_str(raw_basic[j].movie_douban_id)
           /\ Truthy(BasicOffer(raw_basic[i], "title"))
           /\ Truthy(BasicOffer(raw_basic[j], "title"))
           /\ BasicOffer(raw_basic[i], "title") # BasicOffer(raw_basic[j], "title")
           /\ DictGet(movies, normalize_str(raw_basic[i].movie_douban_id)).title
                  = BasicOffer(raw_basic[i], "title")
           /\ \E k \in 1..Len(raw_basic) :
                  /\ j < k
                  /\ normalize_str(raw_basic[k].movie_douban_id)
                         = normalize_str(raw_basic[i].movie_douban_id)
                  /\ ~Truthy(BasicOffer(raw_basic[k], "title"))

(***************************************************************************)
(* C9: the merge and the order of the observations                         *)
(***************************************************************************)

Perms(n) == {p \in [1..n -> 1..n] : \A i, j \in 1..n : p[i] = p[j] => i = j}
Permuted(file, p) == [i \in 1..Len(file) |-> file[p[i]]]
Populated(recs, fields) ==
    {<<key, f>> \in DictKeys(recs) \X fields : Truthy(DictGet(recs, key)[f])}

\* C9: whatever the order the observations of each file are read in, the merge
\* collects the same keys and populates the same fields of each key as the
\* scan did.
C9_OrderFreeFields ==
    /\ \A p \in Perms(Len(raw_basic)) : \A q \in Perms(Len(raw_summary)) :
           LET ms == collect_movies(Permuted(raw_basic, p),
                                    Permuted(raw_summary, q))
           IN  /\ DictKeys(ms) = DictKeys(movies)
               /\ Populated(ms, MovieFields) = Populated(movies, MovieFields)
    /\ \A p \in Perms(Len(raw_person)) :
           LET ps == collect_persons(seed_names, Permuted(raw_person, p))
           IN  /\ DictKeys(ps) = DictKeys(persons)
               /\ Populated(ps, PersonFields) = Populated(persons, PersonFields)

\* Two observations of one movie were read, the first leaving a field empty
\* that the second fills, a third one offering a differing value.
C9_Witness ==
    /\ Len(raw_basic) = 3
    /\ \A i \in 1..3 : raw_basic[i].movie_douban_id = D1(9)
    /\ ~Truthy(BasicOffer(raw_basic[1], "title"))
    /\ Truthy(BasicOffer(raw_basic[2], "title"))
    /\ Truthy(BasicOffer(raw_basic[3], "title"))
    /\ BasicOffer(raw_basic[2], "title") # BasicOffer(raw_basic[3], "title")
    /\ <<D1(9), "title">> \in Populated(movies, MovieFields)

(***************************************************************************)
(* C10: the display name of a person                                       *)
(***************************************************************************)

PublishedName(pid) ==
    LET hits == {i \in 1..Len(persons_csv.rows) :
                    persons_csv.rows[i].person_douban_id = pid}
    IN  IF hits = {} THEN None ELSE persons_csv.rows[CHOOSE i \in hits : TRUE].name
DetailNames(pid) ==
    [i \in 1..Len(raw_person) |->
        IF normalize_str(raw_person[i].person_douban_id) = pid
        THEN DetailOffer(raw_person[i]) ELSE None]
CreditNames(pid) ==
    {normalize_str(raw_cast[i].name) : i \in
        {j \in 1..Len(raw_cast) :
            normalize_str(raw_cast[j].person_douban_id) = pid}}

\* C10: the published name of a person is the name the seed list gives, if it
\* gives one, and else the first non-empty name of the person's detail records
\* in scan order (the record's name, or its name_cn when it has no name); the
\* names of the credit records take no part.
C10_SeedThenDetailName ==
    scan_pc = "done" =>
        \A pid \in DictKeys(persons) :
            IF Truthy(SeedNameOf(pid))
            THEN PublishedName(pid) = SeedNameOf(pid)
            ELSE HoldsFirstNonEmpty(PublishedName(pid), DetailNames(pid))

\* The seed list names a person whose detail record gives another name, and
\* another person is named by a detail record only.
C10_Witness ==
    /\ scan_pc = "done"
    /\ \E pid \in DictKeys(persons) :
           /\ Truthy(SeedNameOf(pid))
           /\ \E i \in 1..Len(raw_person) :
                  /\ Truthy(DetailNames(pid)[i])
                  /\ DetailNames(pid)[i] # SeedNameOf(pid)
           /\ PublishedName(pid) = SeedNameOf(pid)
    /\ \E pid \in DictKeys(persons) :
           /\ ~Truthy(SeedNameOf(pid))
           /\ Truthy(PublishedName(pid))

\* C10 as stated: with no seed name, the name of a credit record precedes the
\* detail name.
C10_CreditNameBeforeDetail ==
    scan_pc = "done" =>
        \A pid \in DictKeys(persons) :
            (~Truthy(SeedNameOf(pid)) /\ \E n \in CreditNames(pid) : Truthy(n))
                => PublishedName(pid) \in CreditNames(pid)


(***************************************************************************)
(* C11: the names of the published persons                                 *)
(***************************************************************************)

\* C11: every row of persons.csv has a non-empty name.
C11_PublishedPersonsNamed ==
    \A i \in 1..Len(persons_csv.rows) : persons_csv.rows[i].name # <<>>


(***************************************************************************)
(* C12: the rows of award_record_for_sql.csv                               *)
(***************************************************************************)

\* The columns of the dictionary files that a stage reads its keys from.
AwardDictCols(stage) ==
    IF stage = "06"
    THEN [fest_id |-> "festival_id", award_id |-> "award_id",
          award_fest |-> "festival_id", award_type |-> "award_type"]
    ELSE [fest_id |-> "id", award_id |-> "id", award_fest |-> "fest_id",
          award_type |-> "type"]

\* Staging row r resolves, against the files of run, to the ids of the cells of
\* row o: there are a festival, an award of that festival and a movie with its
\* keys, and, when r names a person, that person.
AwardResolvesTo(run, r, o) ==
    LET cols == AwardDictCols(run.by)
        Rows(csv) == {csv.rows[i] : i \in 1..Len(csv.rows)}
        Num(row, col) == IF RowGet(row, col) = None THEN <<>>
                         ELSE ParseInt(RowGet(row, col))
        Str(row, col) == Strip(OrEmpty(RowGet(row, col)))
        type == IF run.by = "06" THEN Lower(Str(r, "award_type"))
                ELSE Str(r, "award_type")
    IN  /\ \E f \in Rows(run.read.dict_festival), a \in Rows(run.read.dict_award) :
               /\ Str(f, "name") = Str(r, "festival_name")
               /\ Num(f, "year") # <<>>
               /\ Num(f, "year") = Num(r, "festival_year")
               /\ Num(f, cols.fest_id) # <<>>
               /\ Num(a, cols.award_fest) = Num(f, cols.fest_id)
               /\ Str(a, "name") = Str(r, "award_name")
               /\ Str(a, cols.award_type) = type
               /\ type # <<>>
               /\ Num(a, cols.award_id) # <<>>
               /\ ParseInt(o.award_id) = Num(a, cols.award_id)
        /\ \E m \in Rows(run.read.movies) :
               /\ Str(m, "movie_douban_id") = Str(r, "movie_douban_id")
               /\ Num(m, "id") # <<>>
               /\ ParseInt(o.movie_id) = Num(m, "id")
        /\ Str(r, "person_douban_id") = <<>> <=> o.person_id = <<>>
        /\ Str(r, "person_douban_id") # <<>> =>
               \E p \in Rows(run.read.persons) :
                   /\ Str(p, "person_douban_id") = Str(r, "person_douban_id")
                   /\ Num(p, "id") # <<>>
                   /\ ParseInt(o.person_id) = Num(p, "id")

\* The ids a row of award_record_for_sql.csv may hold after a run: those of the
\* files the run read.
AwardIdCells(run) ==
    LET Ids(csv, col) ==
            {IntToStr(ParseInt(c)[1]) :
                c \in {x \in {RowGet(csv.rows[i], col) : i \in 1..Len(csv.rows)} :
                          x # None /\ ParseInt(x) # <<>>}}
    IN  {[award_id |-> a, movie_id |-> m, person_id |-> p] :
            a \in Ids(run.read.dict_award, AwardDictCols(run.by).award_id),
            m \in Ids(run.read.movies, "id"),
            p \in Ids(run.read.persons, "id") \cup {<<>>}}

\* C12: the rows of award_record_for_sql.csv are, in the order of the staging
\* file, the resolutions of exactly those staging rows whose festival, award
\* and movie are found and whose person, if they name one, is found; the
\* person_id of a row is empty if and only if its staging row names no person,
\* and every other staging row leaves no row.
C12_AwardRowsResolved ==
    award_sql.by # "" =>
        LET rows == award_sql.read.award_records.rows
            out == award_sql.csv.rows
            Resolvable(r) == \E o \in AwardIdCells(award_sql) :
                                 AwardResolvesTo(award_sql, r, o)
            kept == SelectSeq(rows, Resolvable)
        IN  /\ Len(out) = Len(kept)
            /\ \A i \in 1..Len(out) : AwardResolvesTo(award_sql, kept[i], out[i])

\* Stage 06 has written a row with a person and has dropped a row whose person
\* is not in persons.csv.
C12_Witness ==
    /\ award_sql.by = "06"
    /\ \E i \in 1..Len(award_sql.csv.rows) : award_sql.csv.rows[i].person_id # <<>>
    /\ award_sql.skipped["person"] = 1
    /\ award_sql.written < award_sql.total


(***************************************************************************)
(* C13: the keys of stage 06 and the keys of stage 01                      *)
(***************************************************************************)

\* C13: when stage 06 has read the dictionaries stage 01 wrote and the staging
\* file stage 02 wrote from the same award records, no row is dropped for a
\* missing festival or a missing award.
C13_KeysMatch ==
    (/\ award_sql.by = "06"
     /\ stage01_input = <<raw_basic, raw_details, raw_person, raw_awards>>
     /\ award_sql.read.dict_festival = basic_dicts.dict_festival
     /\ award_sql.read.dict_award = basic_dicts.dict_award
     /\ award_sql.read.award_records.rows = build_award_records(raw_awards))
        => /\ award_sql.skipped["festival"] = 0
           /\ award_sql.skipped["award"] = 0


(***************************************************************************)
(* C14: the regions of dict_region.csv                                     *)
(***************************************************************************)

\* C14: when stage 01 and stage 03 have both run on the records of the store,
\* every region of a movie and every birth_region of persons.csv is a name of
\* dict_region.csv.
C14_RegionsUnion ==
    LET dict == basic_dicts.dict_region.rows
        names == {dict[i].name : i \in 1..Len(dict)}
    IN  (/\ stage01_input = <<raw_basic, raw_details, raw_person, raw_awards>>
         /\ "persons.csv" \in etl_files
         /\ persons_csv =
                PersonsCsv(collect_persons(load_person_seed_names(seed_file),
                                           raw_person)))
            => /\ \A i \in 1..Len(raw_details) :
                      \A k \in 1..Len(raw_details[i].regions) :
                          LET name == normalize_str(raw_details[i].regions[k]) IN
                          Truthy(name) => name \in names
               /\ \A i \in 1..Len(persons_csv.rows) :
                      persons_csv.rows[i].birth_region # <<>> =>
                          persons_csv.rows[i].birth_region \in names


(***************************************************************************)
(* C15: the pairs of a bridge file                                         *)
(***************************************************************************)

\* The dedup of build_bridge_csv run over a sequence of rows of ids.
RECURSIVE DedupRun(_, _)
DedupRun(b, rows) ==
    IF rows = <<>> THEN b
    ELSE DedupRun(AddPair(b, <<ParseInt(Head(rows).movie_id)[1],
                               ParseInt(Head(rows).genre_id)[1]>>), Tail(rows))

\* Row k of the source file has a movie and a name of the maps.
BridgeResolves(k) ==
    LET row == bridge.source[k] IN
    /\ DictHas(bridge.movie_map, Strip(row.movie_douban_id))
    /\ DictHas(bridge.dict_map, Strip(row.genre_name))
\* The output row of source row k.
BridgePair(k) ==
    LET row == bridge.source[k] IN
    [movie_id |-> IntToStr(DictGet(bridge.movie_map, Strip(row.movie_douban_id))),
     genre_id |-> IntToStr(DictGet(bridge.dict_map, Strip(row.genre_name)))]

\* C15: no (movie_id, dict_id) pair is written twice; the rows written are the
\* pairs of the source rows read so far, each where it first occurs and in
\* that order; the dedup run over the rows written writes the same rows.
C15_BridgePairsOnce ==
    LET out == bridge.out
        first == {k \in 1..bridge.total_src :
                     /\ BridgeResolves(k)
                     /\ \A j \in 1..(k - 1) :
                            BridgeResolves(j) => BridgePair(j) # BridgePair(k)}
    IN  /\ \A i, j \in 1..Len(out) : out[i] = out[j] => i = j
        /\ Len(out) = Cardinality(first)
        /\ \A k \in first : out[1 + Cardinality({j \in first : j < k})] = BridgePair(k)
        /\ DedupRun(NoBridge, out).out = out

\* The bridge is written, and a row was left out whose name differs from the
\* name of an earlier row with the same pair of ids.
C15_Witness ==
    /\ bridge.pc = "done"
    /\ bridge.dedup_count > 0
    /\ Len(bridge.out) > 1
    /\ \E j, k \in 1..Len(bridge.source) :
           /\ j < k
           /\ BridgeResolves(j) /\ BridgeResolves(k)
           /\ BridgePair(j) = BridgePair(k)
           /\ Strip(bridge.source[j].genre_name) # Strip(bridge.source[k].genre_name)


(***************************************************************************)
(* C16: the ids of positions.csv over the runs of stage 04                 *)
(***************************************************************************)

\* No name and no id stands in two rows of positions.csv.
PositionsOnce ==
    \A i, j \in 1..Len(positions_csv.rows) :
        (\/ positions_csv.rows[i].name = positions_csv.rows[j].name
         \/ positions_csv.rows[i].id = positions_csv.rows[j].id) => i = j

\* A step keeps every row of positions.csv, and each row it adds has the id
\* that follows the largest id of the rows before it.
PositionsGrow ==
    LET old == positions_csv.rows
        new == positions_csv'.rows
        MaxId(n) == IF n = 0 THEN 0
                    ELSE CHOOSE m \in {ParseInt(new[i].id)[1] : i \in 1..n} :
                             \A i \in 1..n : ParseInt(new[i].id)[1] <= m
    IN  /\ Len(old) <= Len(new)
        /\ \A i \in 1..Len(old) : new[i] = old[i]
        /\ \A i \in (Len(old) + 1)..Len(new) :
               ParseInt(new[i].id) = <<MaxId(i - 1) + 1>>

\* C16: over the runs of stage 04, each loading positions.csv first, a name
\* that has an id keeps it, no two names share an id, no name is stored twice,
\* and a new name gets the largest id in use plus one.
C16_PositionIdsStable == []PositionsOnce /\ [][PositionsGrow]_vars

\* A run that loaded positions.csv with a position in it has added another.
C16_Witness ==
    /\ credit_out.positions_loaded > 0
    /\ Len(positions_csv.rows) > credit_out.positions_loaded


(***************************************************************************)
(* C17: the rows of crew_credit.csv                                        *)
(***************************************************************************)

\* C17: no two rows of crew_credit.csv have the same movie_id, person_id and
\* position_id.
C17_CrewRowsOnce ==
    LET rows == credit_out.crew_credit.rows IN
    \A i, j \in 1..Len(rows) :
        (/\ rows[i].movie_id = rows[j].movie_id
         /\ rows[i].person_id = rows[j].person_id
         /\ rows[i].position_id = rows[j].position_id) => i = j


(***************************************************************************)
(* C18: the inclusion rules of the seed list                               *)
(***************************************************************************)

\* What the files of the record store say about the person with Douban id p.
SeedCrewFile == raw_crew["0"] \o raw_crew["1"]
SeedId(rec, f) == Strip(OrEmpty(RowGet(rec, f)))
CastOf(p) ==
    {i \in DOMAIN raw_cast :
        SeedId(raw_cast[i], "person_douban_id") = p
            /\ SeedId(raw_cast[i], "movie_douban_id") # <<>>}
CrewOf(p) ==
    {i \in DOMAIN SeedCrewFile :
        SeedId(SeedCrewFile[i], "person_douban_id") = p
            /\ SeedId(SeedCrewFile[i], "movie_douban_id") # <<>>}
PersonAwardsOf(p) ==
    {i \in DOMAIN raw_awards :
        raw_awards[i].award_type = <<80, 101, 114, 115, 111, 110>>
            /\ SeedId(raw_awards[i], "person_douban_id") = p}
CastMoviesOf(p) == {SeedId(raw_cast[i], "movie_douban_id") : i \in CastOf(p)}
CrewMoviesOf(p) == {SeedId(SeedCrewFile[i], "movie_douban_id") : i \in CrewOf(p)}
\* The known billing orders of p in movie m.
OrdersOf(p, m) ==
    {ParseInt(raw_cast[i].order)[1] :
        i \in {j \in CastOf(p) :
                  /\ SeedId(raw_cast[j], "movie_douban_id") = m
                  /\ raw_cast[j].order # None
                  /\ ParseInt(raw_cast[j].order) # <<>>}}
SaysWord(rec, zh, en) ==
    \/ Contains(SeedId(rec, "department"), zh)
    \/ Contains(Lower(SeedId(rec, "department")), en)
    \/ Contains(Lower(SeedId(rec, "role")), en)
WordMoviesOf(p, zh, en) ==
    {SeedId(SeedCrewFile[i], "movie_douban_id") :
        i \in {j \in CrewOf(p) : SaysWord(SeedCrewFile[j], zh, en)}}
IsWordOf(p, zh, en) ==
    \/ \E i \in CastOf(p) : SaysWord(raw_cast[i], zh, en)
    \/ \E i \in CrewOf(p) : SaysWord(SeedCrewFile[i], zh, en)
DirectorMoviesOf(p) ==
    WordMoviesOf(p, <<23548, 28436>>, <<100, 105, 114, 101, 99, 116, 111, 114>>)
WriterMoviesOf(p) ==
    WordMoviesOf(p, <<32534, 21095>>, <<119, 114, 105, 116, 101, 114>>)
WinsOf(p) == Cardinality({i \in PersonAwardsOf(p) : raw_awards[i].is_winner})
NomsOf(p) == Cardinality({i \in PersonAwardsOf(p) : ~raw_awards[i].is_winner})
TotalMoviesOf(p) == Cardinality(CastMoviesOf(p) \cup CrewMoviesOf(p))
SeedPersons ==
    ({SeedId(raw_cast[i], "person_douban_id") : i \in DOMAIN raw_cast}
        \cup {SeedId(SeedCrewFile[i], "person_douban_id") : i \in DOMAIN SeedCrewFile}
        \cup {SeedId(raw_awards[i], "person_douban_id") : i \in DOMAIN raw_awards})
        \ {<<>>}

\* The tags of the inclusion rules that hold for p, in the order of the rules.
RuleTags(p) ==
    LET orders == UNION {OrdersOf(p, m) : m \in CastMoviesOf(p)} IN
    (IF \/ Cardinality(CastMoviesOf(p)) >= 3
        \/ /\ Cardinality(CastMoviesOf(p)) >= 2
           /\ \E o \in orders : o <= 3
     THEN <<"core_actor">> ELSE <<>>)
    \o (IF /\ IsWordOf(p, <<23548, 28436>>,
                       <<100, 105, 114, 101, 99, 116, 111, 114>>)
           /\ Cardinality(DirectorMoviesOf(p)) >= 2
        THEN <<"core_director">> ELSE <<>>)
    \o (IF /\ IsWordOf(p, <<32534, 21095>>, <<119, 114, 105, 116, 101, 114>>)
           /\ Cardinality(WriterMoviesOf(p)) >= 3
        THEN <<"core_writer">> ELSE <<>>)
    \o (IF WinsOf(p) >= 1 \/ NomsOf(p) >= 3
        THEN <<"awarded_person">> ELSE <<>>)

SeedsOf(p) == {i \in DOMAIN seed_file : seed_file[i].person_douban_id = p}

\* C18, as stated: every person for whom an inclusion rule holds, a person
\* whose only evidence is award records included, is written to the seed list.
C18_EveryRulePersonWritten ==
    seed_pc = "written" =>
        \A p \in SeedPersons : RuleTags(p) # <<>> => SeedsOf(p) # {}

\* C18, amended: a person credited in at least one movie for whom an inclusion
\* rule holds is written once, with exactly the tags of the rules that hold;
\* every other record of the seed list carries the tag of the residual pool
\* alone, and no person without a movie is written.
C18_RulePersonsWithMovies ==
    seed_pc = "written" =>
        /\ \A p \in SeedPersons :
               (TotalMoviesOf(p) >= 1 /\ RuleTags(p) # <<>>) =>
                   \E i \in DOMAIN seed_file :
                       /\ SeedsOf(p) = {i}
                       /\ seed_file[i].seed_reasons = RuleTags(p)
        /\ \A i \in DOMAIN seed_file :
               LET p == seed_file[i].person_douban_id IN
               /\ p \in SeedPersons /\ TotalMoviesOf(p) >= 1
               /\ \/ seed_file[i].seed_reasons = RuleTags(p)
                  \/ /\ RuleTags(p) = <<>>
                     /\ seed_file[i].seed_reasons = <<"frequent_person">>

\* A person with cast credits in three movies, no crew credit and no award is
\* written with core_actor alone.
C18_Witness ==
    /\ seed_pc = "written"
    /\ \E p \in SeedPersons :
           /\ Cardinality(CastMoviesOf(p)) = 3
           /\ CrewOf(p) = {} /\ PersonAwardsOf(p) = {}
           /\ \E i \in DOMAIN seed_file :
                  /\ seed_file[i].person_douban_id = p
                  /\ seed_file[i].seed_reasons = <<"core_actor">>


(***************************************************************************)
(* C19: actor_score and total_score                                        *)
(***************************************************************************)

\* The weight of movie m in the actor_score of p, as the rule states it.
ActorWeight(p, m) ==
    IF OrdersOf(p, m) = {} THEN 1
    ELSE LET best == CHOOSE o \in OrdersOf(p, m) : \A q \in OrdersOf(p, m) : o <= q
         IN  IF best <= 3 THEN 3 ELSE IF best <= 8 THEN 2 ELSE 1
RECURSIVE ActorWeights(_, _)
ActorWeights(p, ms) ==
    IF ms = {} THEN 0
    ELSE LET m == CHOOSE x \in ms : TRUE
         IN  ActorWeight(p, m) + ActorWeights(p, ms \ {m})

\* C19: the actor_score of a written person is the sum of the weights of the
\* movies the person is cast in, a movie whose billing order is unknown
\* weighing 1, and total_score is actor_score + crew_score + award_score.
C19_ActorScoreWeights ==
    seed_pc = "written" =>
        \A i \in DOMAIN seed_file :
            /\ seed_file[i].actor_score
                   = ActorWeights(seed_file[i].person_douban_id,
                                  CastMoviesOf(seed_file[i].person_douban_id))
            /\ seed_file[i].total_score
                   = seed_file[i].actor_score + seed_file[i].crew_score
                         + seed_file[i].award_score


(***************************************************************************)
(* C20: the residual pool and max_frequent                                 *)
(***************************************************************************)

\* total_score of p as build_person_seeds measures it: only the cast movies
\* with a known billing order weigh in actor_score.
TotalScoreOf(p) ==
    ActorWeights(p, {m \in CastMoviesOf(p) : OrdersOf(p, m) # {}})
        + 3 * Cardinality(DirectorMoviesOf(p))
        + 2 * Cardinality(WriterMoviesOf(p))
        + Cardinality((CrewMoviesOf(p) \ DirectorMoviesOf(p)) \ WriterMoviesOf(p))
        + 3 * WinsOf(p) + NomsOf(p)
ResidualPool ==
    {p \in SeedPersons :
        /\ RuleTags(p) = <<>>
        /\ TotalMoviesOf(p) >= seed_in.min_total_movies_for_frequent
        /\ TotalScoreOf(p) > 0}
FrequentTagged ==
    {p \in SeedPersons :
        \E i \in SeedsOf(p) :
            \E k \in DOMAIN seed_file[i].seed_reasons :
                seed_file[i].seed_reasons[k] = "frequent_person"}

\* C20: for any K = max_frequent, min(K, pool size) members of the residual pool
\* (none for a negative K) are tagged frequent_person and written, no tagged
\* member scores less than an untagged one, and frequent_person stands alone.
C20_TopKFrequent ==
    seed_pc = "written" =>
        /\ FrequentTagged \subseteq ResidualPool
        /\ Cardinality(FrequentTagged)
               = (IF seed_in.max_frequent < 0 THEN 0
                  ELSE Min2(seed_in.max_frequent, Cardinality(ResidualPool)))
        /\ \A t \in FrequentTagged : \A u \in ResidualPool \ FrequentTagged :
               TotalScoreOf(t) >= TotalScoreOf(u)
        /\ \A i \in DOMAIN seed_file :
               (\E k \in DOMAIN seed_file[i].seed_reasons :
                    seed_file[i].seed_reasons[k] = "frequent_person")
                   => seed_file[i].seed_reasons = <<"frequent_person">>


(***************************************************************************)
(* C21: the seeds of two crawl workers                                     *)
(***************************************************************************)

SeqSet(s) == {s[i] : i \in DOMAIN s}

\* C21: two processes started with different worker ids load disjoint sets of
\* seed identifiers and write to different directories, and the workers
\* 0..n-1, run without a maximum, load every identifier of the seed file.
C21_WorkersDisjoint ==
    /\ \A r1, r2 \in worker_runs :
           r1.worker_id # r2.worker_id =>
               /\ SeqSet(r1.movie_ids) \cap SeqSet(r2.movie_ids) = {}
               /\ r1.worker_dir # r2.worker_dir
    /\ (\A w \in 0..(num_workers - 1) :
            \E r \in worker_runs : r.worker_id = w /\ r.max_movies = None)
           => UNION {SeqSet(r.movie_ids) :
                        r \in {q \in worker_runs :
                                  q.worker_id \in 0..(num_workers - 1)}}
                  = SeqSet(movie_seed_file)


(***************************************************************************)
(* C22: lines that are not JSON objects                                    *)
(***************************************************************************)

\* C22: a run of stage 03 over a file with lines that are not JSON objects
\* completes, and writes what the object lines alone give.
C22_BadLinesSkipped ==
    scan_pc # "idle" =>
        /\ scan_pc = "done"
        /\ movies_csv = MoviesCsv(collect_movies(raw_basic, raw_summary))
        /\ movie_id_map_csv = MovieIdMapCsv(collect_movies(raw_basic, raw_summary))


(***************************************************************************)
(* C23: a run without the raw-data root directory                          *)
(***************************************************************************)

\* C23: while the directory data/raw is absent no step creates or modifies
\* an output file of stage 04.
C23_NoRootNoOutput ==
    [][~raw_root => UNCHANGED <<etl_files, positions_csv, credit_out>>]_vars


(***************************************************************************)
(* C24: a dictionary file that is missing                                  *)
(***************************************************************************)

\* C24: a run of stage 06 or 08 taken while dict_festival.csv or
\* dict_award.csv is missing completes without error and writes no row.
C24_MissingDictIsEmpty ==
    [][(/\ ~({"dict_festival.csv", "dict_award.csv"} \subseteq etl_files)
        /\ award_sql' # award_sql)
           => /\ award_sql'.error = ""
              /\ award_sql'.by \in {"06", "08"}
              /\ award_sql'.written = 0]_vars


(***************************************************************************)
(* C25: the counters of a run                                              *)
(***************************************************************************)

\* C25: at the end of a run of stage 05 the rating records read are the rows
\* written plus the records counted by the skip counters, and so for the
\* watch records.
C25_EveryDropCounted ==
    \A f \in {"ratings", "watch"} :
        stage05_cnt[f].read
            = stage05_cnt[f].total + stage05_cnt[f].skipped_no_movie
                  + stage05_cnt[f].skipped_no_user


(***************************************************************************)
(* C26: a natural key that is not a number                                 *)
(***************************************************************************)

\* C26: a movie whose movie_douban_id is not a number gets no id: the files
\* of a completed run of stage 03 are those of the records with numeric keys.
C26_NonNumericKeyDropped ==
    scan_pc = "done" =>
        LET numeric == SelectSeq(raw_basic,
                           LAMBDA obj : ~Truthy(normalize_str(obj.movie_douban_id))
                                          \/ IsDigits(normalize_str(obj.movie_douban_id)))
        IN  /\ movie_id_map_csv = MovieIdMapCsv(collect_movies(numeric, raw_summary))
            /\ movies_csv = MoviesCsv(collect_movies(numeric, raw_summary))


(***************************************************************************)
(* C27: the raw username and the published tables                          *)
(***************************************************************************)

\* The records with the username_raw removed.
NoUsername(recs) ==
    [i \in DOMAIN recs |-> [recs[i] EXCEPT !.username_raw = None]]

\* users.csv without its name column.
NoNameColumn(csv) ==
    [header |-> csv.header,
     rows |-> [i \in DOMAIN csv.rows |-> [csv.rows[i] EXCEPT !.name = <<>>]]]

\* What a run of stage 05 hands on to stages 09, 10 and 11: the id, hash and
\* email of every user, movie_ratings.csv and watching_records.csv.
Stage05Handed(users, ratings, watch) ==
    <<[i \in DOMAIN users.rows |->
          <<users.rows[i].id, users.rows[i].user_hash, users.rows[i].email>>],
      ratings, watch>>

\* C27: the username_raw of the records does not reach the published tables.
\* A run of stage 05 hands on what it would hand on had every username_raw
\* been absent (the user ids are those of the sorted hashes), and a run of
\* stage 09 writes what it would write from a users.csv with empty names.
C27_UsernameNotPublished ==
    [][/\ RunStage05 =>
              LET movie_id_map == load_movie_id_map(movies_csv)
                  users == collect_users(<<>>, NoUsername(raw_ratings)
                                                 \o NoUsername(raw_watch))
              IN  Stage05Handed(users_csv', movie_ratings_csv',
                                watching_records_csv')
                      = Stage05Handed(
                            UsersCsv(users),
                            [header |-> movie_ratings_csv'.header,
                             rows |-> build_movie_ratings(<<>>,
                                          NoUsername(raw_ratings), movie_id_map,
                                          user_id_map(users))],
                            [header |-> watching_records_csv'.header,
                             rows |-> build_watching_records(<<>>,
                                          NoUsername(raw_watch), movie_id_map,
                                          user_id_map(users))])
       /\ RunStage09 =>
              app_users_csv'.rows
                  = build_app_users_for_sql(<<>>, NoNameColumn(users_csv).rows,
                                            {}, {})]_vars

\* Stage 09 has published a user whose users.csv row carries a name, and stage
\* 05 has written a rating of that user.
C27_Witness ==
    /\ "app_users_for_sql.csv" \in etl_files
    /\ \E i \in DOMAIN users_csv.rows :
          /\ users_csv.rows[i].name # <<>>
          /\ \E j \in DOMAIN app_users_csv.rows :
                /\ app_users_csv.rows[j].id = users_csv.rows[i].id
                /\ app_users_csv.rows[j].name = users_csv.rows[i].user_hash
          /\ \E j \in DOMAIN movie_ratings_csv.rows :
                movie_ratings_csv.rows[j].user_id = users_csv.rows[i].id


(***************************************************************************)
(* C28: the order of the worker directories                                *)
(***************************************************************************)

\* C28: a run of stage 04 that starts without positions.csv writes the
\* positions and the crew credit rows of the sorted order of the worker
\* directories, whatever the order in which the directories are listed.
C28_SortedWorkerOrder ==
    [][(RunStage04 /\ raw_root /\ "positions.csv" \notin etl_files) =>
           LET sorted == build_crew_credit(
                             [pos |-> load_positions(FALSE, positions_csv),
                              rows |-> <<>>, total |-> 0,
                              skipped_no_movie |-> 0, skipped_no_person |-> 0],
                             raw_crew["0"] \o raw_crew["1"],
                             load_id_map_from_csv(movies_csv, "movie"),
                             load_id_map_from_csv(persons_csv, "person"))
           IN  /\ positions_csv'.rows = sorted.pos.rows
               /\ credit_out'.crew_credit.rows = sorted.rows]_vars


(***************************************************************************)
(* C29: fetch_top_movies_for_type ends                                     *)
(***************************************************************************)

\* C29: whatever pages the ranking endpoint answers, the call of
\* fetch_top_movies_for_type ends, and it returns at most total_limit items.
C29_TopListTerminates ==
    /\ <>(top_pc \in {"returned", "raised"})
    /\ [](top_pc = "returned" => Len(top_results) <= top_in.total_limit)


(***************************************************************************)
(* C30: the attempts of a fetch with retries                               *)
(***************************************************************************)

\* The positions of the fetches in the log of the call, and the failed ones.
Fetches == {i \in DOMAIN retry_log : retry_log[i].ev = "fetch"}
FailedFetches == {i \in Fetches : retry_log[i].outcome # "ok"}

====
